---- MODULE Spec2Model ----
(***************************************************************************)
(* Calos AI assistant: the message-importance classifier, the intent       *)
(* analyzer with its confidence-gated action dispatch, the monitoring      *)
(* scheduler, the feedback route, the retry helper, the Goal-Tracker       *)
(* client and the history route, modelled from the TypeScript sources.     *)
(*                                                                         *)
(* Twelve specifications share the module:                                 *)
(*   SpecClassify  one call of MessageClassifier.classify                  *)
(*   SpecAnalyze   one call of IntentService.analyzeIntent                 *)
(*   SpecChat      one chat turn of AIService.chat                         *)
(*   SpecMonitor   the cron-driven cycles of MonitoringScheduler, which    *)
(*                 can overlap                                             *)
(*   SpecCycle     the cycles of MonitoringScheduler one at a time, with   *)
(*                 what each did for each user written down in trace       *)
(*   SpecFeedback  the POST /feedback/:id requests under way               *)
(*   SpecLearning  feedback submissions followed by the prompts that       *)
(*                 classify builds from them                               *)
(*   SpecCycleResponding  one observed cycle whose collaborators answer    *)
(*                 every call, with a result or an exception               *)
(*   SpecRetry     one call of generateContentWithRetry                    *)
(*   SpecSimilarity  calculateSimilarity of two strings, in both orders    *)
(*   SpecTurns     the executor calls of two chat turns at the same time   *)
(*                 on the one dayTrackerAPI client                         *)
(*   SpecHistory   chat messages stored and GET /history requests          *)
(***************************************************************************)
EXTENDS Integers, Sequences, FiniteSets, TLC

VARIABLES
    clsReq,     \* the classify call under way: collaborator outcomes and model response
    clsRes,     \* what classify returned (NoResult before the call returns)
    anaReq,     \* the analyzeIntent call under way: gateway outcome and model response
    anaRes,     \* what analyzeIntent returned (NoIntent before the call returns)
    pc,           \* position of the chat turn inside AIService.chat
    jwtToken,     \* the credential of the turn ("" when the request carried none)
    goals,        \* the goal list the Goal-Tracker holds
    intentResult, \* result of analyzeIntent (NoIntent before it returns)
    executed,     \* the Action Executors invoked in the turn, in order
    escaped,      \* whether an exception left the invoked executor
    actionResult, \* the actionResult local of chat
    requests,     \* the requests sent to the Goal-Tracker, in order
    messages,     \* the rows of ai_conversations, in insertion order
    failure,      \* the step whose exception ended the turn ("none" otherwise)
    store,        \* the rows of monitored_messages
    prefs,        \* the row of ai_preferences of each user
    cycles,       \* the monitoring cycles under way, one per invocation slot
    completed,    \* the dedup keys of which a processing completed without error
    trace,        \* what the observed cycle did, user by user (NoTrace when not observed)
    feedback,     \* the rows of message_feedback, in insertion order
    submissions,  \* the POST /feedback/:id requests under way, one per slot
    prompt,       \* the learning context of the last classification prompt built
    retry,        \* the call of generateContentWithRetry under way
    sim,          \* two strings and their similarity, taken in both orders
    authToken,    \* the Authorization default of the one dayTrackerAPI client
    turns,        \* the executor calls of the chat turns under way, one per user
    wire,         \* the requests the Goal-Tracker received, with their credential
    history       \* the last GET /history request and its response

clsVars == <<clsReq, clsRes>>

anaVars == <<anaReq, anaRes>>

chatVars ==
    <<pc, jwtToken, goals, intentResult, executed, escaped, actionResult,
      requests, messages, failure>>

monVars == <<store, prefs, cycles, completed, trace>>

fbVars == <<feedback, submissions, prompt>>

trkVars == <<authToken, turns, wire>>

svcVars == <<retry, sim, trkVars, history>>

otherThanRetry == <<clsVars, anaVars, chatVars, monVars, fbVars, sim, trkVars, history>>

otherThanSimilarity == <<clsVars, anaVars, chatVars, monVars, fbVars, retry, trkVars, history>>

otherThanTurns == <<clsVars, anaVars, chatVars, monVars, fbVars, retry, sim, history>>

otherThanHistory ==
    <<clsVars, anaVars, monVars, fbVars, retry, sim, trkVars, pc, jwtToken, goals,
      intentResult, executed, escaped, actionResult, requests, failure>>

vars == <<clsVars, anaVars, chatVars, monVars, fbVars, svcVars>>

otherThanChat == <<clsVars, anaVars, monVars, fbVars, svcVars>>

otherThanClassify == <<anaVars, chatVars, monVars, fbVars, svcVars>>

otherThanAnalyze == <<clsVars, chatVars, monVars, fbVars, svcVars>>

otherThanMonitor == <<clsVars, anaVars, chatVars, fbVars, svcVars>>

otherThanFeedback ==
    <<clsVars, anaVars, chatVars, prefs, cycles, completed, trace, prompt, svcVars>>

(***************************************************************************)
(* Bounds of the model                                                     *)
(***************************************************************************)
\* longest model response, in tokens
MaxLen == 3

\* the monitoring cycles that can be under way at once
MaxCycles == 2

\* the feedback submissions that can be under way at once
MaxSubmissions == 2

\* the most rows message_feedback comes to hold
MaxFeedback == 4

\* the cycles an observed scheduler runs
MaxObserved == 2

\* the most rows ai_conversations comes to hold when histories are read
MaxStored == 3

\* LIMIT 3 of getLearningContext
LearningLimit == 3

\* parseInt(req.query.limit) || 50
DefaultLimit == 50

(***************************************************************************)
(* generateContentWithRetry: the call under way                            *)
(***************************************************************************)
\* const maxRetries = 3
MaxRetries == 3

\* const baseDelay = 2000
BaseDelay == 2000

\* the upper end of the jitter, Math.random() * 1000
JitterRange == 1000

\* pc: "call" while model.generateContent is awaited, "wait" while the timer
\* of a retry runs, "returned" / "threw" when the helper has ended;
\* attempt: the loop variable; calls: the model calls made; waits: the
\* delays of the timers set, in ms; error: the status of the last error
\* (0 for an error without one)
FirstAttempt == [pc |-> "call", attempt |-> 0, calls |-> 0, waits |-> <<>>, error |-> 0]

RetryIdle == retry = [FirstAttempt EXCEPT !.pc = "idle"]

\* the similarity not computed yet
NoSimilarity == [num |-> 0, den |-> 0]

SimilarityIdle == sim = [str1 |-> <<>>, str2 |-> <<>>, forth |-> NoSimilarity,
                         back |-> NoSimilarity]

\* the users whose chat turns run at the same time
TurnIds == {1, 2}

\* pc: "idle" before executeAction calls the executor, "awaiting" while the
\* executor awaits the answer to a request, "done" when it has returned;
\* plan: the requests the executor still goes on to send
IdleTurn == [pc |-> "idle", plan |-> <<>>]

TurnsIdle ==
    /\ authToken = ""
    /\ turns = [t \in TurnIds |-> IdleTurn]
    /\ wire = <<>>

\* no GET /history request made yet
NoHistory == [userId |-> 0, sessionId |-> "", status |-> 0, data |-> <<>>]

HistoryIdle == history = NoHistory

ServicesIdle == RetryIdle /\ SimilarityIdle /\ TurnsIdle /\ HistoryIdle

(***************************************************************************)
(* Model responses as text.  A response is a sequence of tokens:           *)
(*   "FJ"  the characters ```json        "F"   the characters ```          *)
(*   "NL"  a newline                     "SP"  a blank                     *)
(*   "V"   the text of one JSON value    "X"   any other text              *)
(***************************************************************************)
Tokens == {"FJ", "F", "NL", "SP", "V", "X"}

Whitespace == {"NL", "SP"}

Texts == UNION {[1..n -> Tokens] : n \in 0..MaxLen}

\* String.prototype.trim
RECURSIVE TrimStart(_)
TrimStart(s) ==
    IF s # <<>> /\ Head(s) \in Whitespace THEN TrimStart(Tail(s)) ELSE s

RECURSIVE TrimEnd(_)
TrimEnd(s) ==
    IF s # <<>> /\ s[Len(s)] \in Whitespace
    THEN TrimEnd(SubSeq(s, 1, Len(s) - 1))
    ELSE s

Trim(s) == TrimEnd(TrimStart(s))

\* s.replace(/```json\n?/g, '')
RECURSIVE ReplaceJsonFence(_)
ReplaceJsonFence(s) ==
    IF s = <<>> THEN <<>>
    ELSE IF Head(s) = "FJ"
         THEN IF Len(s) > 1 /\ s[2] = "NL"
              THEN ReplaceJsonFence(Tail(Tail(s)))
              ELSE ReplaceJsonFence(Tail(s))
         ELSE <<Head(s)>> \o ReplaceJsonFence(Tail(s))

\* s.replace(/```\n?/g, ''): of ```json the backticks go and "json" stays
RECURSIVE ReplaceFence(_)
ReplaceFence(s) ==
    IF s = <<>> THEN <<>>
    ELSE IF Head(s) = "F"
         THEN IF Len(s) > 1 /\ s[2] = "NL"
              THEN ReplaceFence(Tail(Tail(s)))
              ELSE ReplaceFence(Tail(s))
         ELSE IF Head(s) = "FJ"
              THEN <<"X">> \o ReplaceFence(Tail(s))
              ELSE <<Head(s)>> \o ReplaceFence(Tail(s))

\* the code-fence stripping shared by both parsers
StripCodeFence(response) ==
    LET cleaned == Trim(response)
    IN  IF cleaned # <<>> /\ Head(cleaned) = "FJ"
        THEN ReplaceFence(ReplaceJsonFence(cleaned))
        ELSE IF cleaned # <<>> /\ Head(cleaned) = "F"
             THEN ReplaceFence(cleaned)
             ELSE cleaned

RECURSIVE DropWhitespace(_)
DropWhitespace(s) ==
    IF s = <<>> THEN <<>>
    ELSE IF Head(s) \in Whitespace
         THEN DropWhitespace(Tail(s))
         ELSE <<Head(s)>> \o DropWhitespace(Tail(s))

\* JSON.parse succeeds exactly on one JSON value with optional surrounding whitespace
JsonParses(cleaned) == DropWhitespace(cleaned) = <<"V">>

(***************************************************************************)
(* JavaScript numbers: an integer or NaN                                   *)
(***************************************************************************)
Num(k) == [nan |-> FALSE, n |-> k]

NaN == [nan |-> TRUE, n |-> 0]

\* Math.min / Math.max: NaN if either argument is NaN
MathMin(a, b) == IF a.nan \/ b.nan THEN NaN ELSE IF a.n <= b.n THEN a ELSE b

MathMax(a, b) == IF a.nan \/ b.nan THEN NaN ELSE IF a.n >= b.n THEN a ELSE b

\* a >= k: false for NaN
Geq(a, k) == ~a.nan /\ a.n >= k

\* a JSON field: absent, null, a number or a string
Absent == [t |-> "absent", n |-> 0, s |-> ""]

JNull == [t |-> "null", n |-> 0, s |-> ""]

JNum(k) == [t |-> "num", n |-> k, s |-> ""]

JStr(x) == [t |-> "str", n |-> 0, s |-> x]

\* ToNumber of a field: undefined -> NaN, null -> 0, a non-numeric string -> NaN
ToNumber(f) ==
    IF f.t = "num" THEN Num(f.n)
    ELSE IF f.t = "null" THEN Num(0)
    ELSE NaN

\* JavaScript truthiness of a field
Truthy(f) ==
    \/ f.t = "num" /\ f.n # 0
    \/ f.t = "str" /\ f.s # ""

(***************************************************************************)
(* MessageClassifier                                                       *)
(***************************************************************************)
Categories == {"high", "medium", "low"}

ScoreFields ==
    {Absent, JNull, JStr("nine")} \cup {JNum(k) : k \in {-3, 0, 1, 4, 5, 7, 8, 10, 11, 15}}

CategoryFields == {Absent, JStr("")} \cup {JStr(c) : c \in Categories \cup {"urgent"}}

\* the JSON value a response carries: null, or an object with score and category
ClassificationValues ==
    {[isNull |-> TRUE, score |-> Absent, category |-> Absent]}
    \cup [isNull : {FALSE}, score : ScoreFields, category : CategoryFields]

\* an exception leaving a function
Threw == [threw |-> TRUE, score |-> NaN, category |-> "none", reasoning |-> "none"]

Returned(score, category, reasoning) ==
    [threw |-> FALSE, score |-> score, category |-> category, reasoning |-> reasoning]

FallbackParse == Returned(Num(5), "medium", "Failed to parse response")

FallbackClassify ==
    Returned(Num(5), "medium", "Classification error, defaulting to medium importance")

\* the band of a score: score >= 8 ? 'high' : score >= 5 ? 'medium' : 'low'
BandOf(score) ==
    IF Geq(score, 8) THEN "high" ELSE IF Geq(score, 5) THEN "medium" ELSE "low"

\* the try block of parseClassificationResponse: JSON.parse throws on text that
\* is not JSON, and reading parsed.score throws when the value is null
ParseClassificationBody(text, value) ==
    LET cleaned == StripCodeFence(text)
    IN  IF ~JsonParses(cleaned) \/ value.isNull
        THEN Threw
        ELSE LET score == MathMax(Num(1), MathMin(Num(10), ToNumber(value.score)))
                 given == value.category
                 category ==
                     IF ~Truthy(given) \/ given.s \notin Categories
                     THEN BandOf(score)
                     ELSE given.s
             IN  Returned(score, category, "model")

ParseClassificationResponse(text, value) ==
    LET body == ParseClassificationBody(text, value)
    IN  IF body.threw THEN FallbackParse ELSE body

\* outcomes of reading the feedback history
HistoryOutcomes == {"ok", "queryFails", "connectFails"}

\* getLearningContext: a failed query is caught and yields '', a failed
\* pool.connect() is outside its try and propagates
GetLearningContext(hist) ==
    IF hist = "connectFails" THEN [threw |-> TRUE, context |-> ""]
    ELSE IF hist = "queryFails" THEN [threw |-> FALSE, context |-> ""]
    ELSE [threw |-> FALSE, context |-> "feedback"]

\* outcomes of generateContentWithRetry as seen by its caller
GatewayOutcomes == {"ok", "fails"}

\* the try block of classify
ClassifyBody(hist, gateway, text, value) ==
    IF GetLearningContext(hist).threw THEN Threw
    ELSE IF gateway = "fails" THEN Threw
    ELSE ParseClassificationResponse(text, value)

ClassifyNoCatch(hist, gateway, text, value) == ClassifyBody(hist, gateway, text, value)

Classify(hist, gateway, text, value) ==
    LET body == ClassifyBody(hist, gateway, text, value)
    IN  IF body.threw THEN FallbackClassify ELSE body

(***************************************************************************)
(* IntentService                                                           *)
(***************************************************************************)
Intents ==
    {"create_log", "create_goal", "update_goal", "create_reminder",
     "get_status", "get_summary", "chat"}

\* confidences are counted in tenths: 6 stands for 0.6
DefaultConfidence == 5

FullConfidence == 10

DispatchThreshold == 6

\* strings of goal titles and keywords are sequences of characters
NoKeyword == <<>>

KwGym == <<"g", "y", "m">>

KwAiUp == <<"A", "i", " ", "u", "p">>

KwOdd == <<"z", "z">>

KwBlank == <<" ">>

Keywords == {NoKeyword, KwGym, KwAiUp, KwOdd, KwBlank}

ConfidenceFields == {Absent, JNull} \cup {JNum(k) : k \in {-2, 0, 5, 6, 7, 10, 15}}

DurationFields ==
    {Absent, JNull, JStr("ninety")} \cup {JNum(k) : k \in {-5, 0, 1, 90, 3650, 3651}}

\* the JSON value of an intent response: null, or an object whose entities
\* carry the fields the named intent's executor reads
IntentValues ==
    {[isNull |-> TRUE, intent |-> "", confidence |-> Absent,
      durationDays |-> Absent, goalKeyword |-> NoKeyword]}
    \cup [isNull : {FALSE}, intent : {"create_goal"}, confidence : ConfidenceFields,
          durationDays : DurationFields, goalKeyword : {NoKeyword}]
    \cup [isNull : {FALSE}, intent : {"create_log", "create_reminder"},
          confidence : ConfidenceFields, durationDays : {Absent}, goalKeyword : Keywords]
    \cup [isNull : {FALSE},
          intent : (Intents \ {"create_goal", "create_log", "create_reminder"})
                       \cup {"", "delete_goal"},
          confidence : ConfidenceFields, durationDays : {Absent},
          goalKeyword : {NoKeyword}]

NoEntities == [durationDays |-> Absent, goalKeyword |-> NoKeyword]

IntentThrew ==
    [threw |-> TRUE, intent |-> "none", confidence |-> NaN, entities |-> NoEntities]

IntentReturned(intent, confidence, entities) ==
    [threw |-> FALSE, intent |-> intent, confidence |-> confidence, entities |-> entities]

ChatOnly == IntentReturned("chat", Num(FullConfidence), NoEntities)

\* the try block of parseIntentResponse
ParseIntentBody(text, value) ==
    LET cleaned == StripCodeFence(text)
    IN  IF ~JsonParses(cleaned) \/ value.isNull
        THEN IntentThrew
        ELSE IF value.intent \notin Intents
             THEN ChatOnly
             ELSE IntentReturned(
                      value.intent,
                      IF Truthy(value.confidence)
                      THEN ToNumber(value.confidence)
                      ELSE Num(DefaultConfidence),
                      [durationDays |-> value.durationDays,
                       goalKeyword |-> value.goalKeyword])

ParseIntentResponse(text, value) ==
    LET body == ParseIntentBody(text, value)
    IN  IF body.threw THEN ChatOnly ELSE body

\* the try block of analyzeIntent
AnalyzeIntentBody(gateway, text, value) ==
    IF gateway = "fails" THEN IntentThrew ELSE ParseIntentResponse(text, value)

AnalyzeIntentNoCatch(gateway, text, value) == AnalyzeIntentBody(gateway, text, value)

AnalyzeIntent(gateway, text, value) ==
    LET body == AnalyzeIntentBody(gateway, text, value)
    IN  IF body.threw THEN ChatOnly ELSE body

(***************************************************************************)
(* DayTrackerAPIService: fuzzy goal matching                               *)
(***************************************************************************)
ToLowerChar(c) ==
    CASE c = "A" -> "a"
      [] c = "G" -> "g"
      [] OTHER -> c

ToLowerCase(s) == [i \in 1..Len(s) |-> ToLowerChar(s[i])]

RECURSIVE TrimBlanksStart(_)
TrimBlanksStart(s) ==
    IF s # <<>> /\ Head(s) = " " THEN TrimBlanksStart(Tail(s)) ELSE s

RECURSIVE TrimBlanksEnd(_)
TrimBlanksEnd(s) ==
    IF s # <<>> /\ s[Len(s)] = " "
    THEN TrimBlanksEnd(SubSeq(s, 1, Len(s) - 1))
    ELSE s

TrimBlanks(s) == TrimBlanksEnd(TrimBlanksStart(s))

\* String.prototype.includes
Includes(s, sub) ==
    \E i \in 0..(Len(s) - Len(sub)) : SubSeq(s, i + 1, i + Len(sub)) = sub

\* s.split(' ')
RECURSIVE Split(_)
Split(s) ==
    IF \A i \in 1..Len(s) : s[i] # " "
    THEN <<s>>
    ELSE LET k == CHOOSE i \in 1..Len(s) :
                      s[i] = " " /\ \A j \in 1..(i - 1) : s[j] # " "
         IN  <<SubSeq(s, 1, k - 1)>> \o Split(SubSeq(s, k + 1, Len(s)))

SeqRange(q) == {q[i] : i \in DOMAIN q}

\* new Set(str.split(' '))
WordSet(s) == SeqRange(Split(s))

\* the share of the words of the first string found in the second
Containment(words1, words2) ==
    [num |-> Cardinality(words1 \cap words2), den |-> Cardinality(words1)]

\* intersection.size / union.size as the fraction num / den
Jaccard(words1, words2) ==
    [num |-> Cardinality(words1 \cap words2), den |-> Cardinality(words1 \cup words2)]

CalculateSimilarity(str1, str2) == Jaccard(WordSet(str1), WordSet(str2))

\* a.similarity > b.similarity
SimGreater(a, b) == a.num * b.den > b.num * a.den

\* a.similarity >= 0.5
AtLeastHalf(a) == 2 * a.num >= a.den

\* a.similarity > 0.5
AboveHalf(a) == 2 * a.num > a.den

\* the predicate of goals.find on one lower-cased title
ExactMatch(lowerKeyword, title) ==
    Includes(title, lowerKeyword) \/ Includes(lowerKeyword, title)

\* Array.prototype.find: the index of the first element that matches, 0 for none
FirstTrue(flags) ==
    IF \E i \in DOMAIN flags : flags[i]
    THEN CHOOSE i \in DOMAIN flags : flags[i] /\ \A j \in 1..(i - 1) : ~flags[j]
    ELSE 0

\* matches.sort((a, b) => b.similarity - a.similarity)[0]: the sort is stable,
\* so the earliest of the most similar goals comes first
BestOf(sims) ==
    CHOOSE i \in DOMAIN sims :
        /\ \A j \in DOMAIN sims : ~SimGreater(sims[j], sims[i])
        /\ \A j \in 1..(i - 1) : SimGreater(sims[i], sims[j])

AcceptBest(best, sims) == IF AboveHalf(sims[best]) THEN best ELSE 0

OrElse(exact, fuzzy) == IF exact # 0 THEN exact ELSE fuzzy

MatchIn(lowerKeyword, titles) ==
    OrElse(FirstTrue([i \in DOMAIN titles |-> ExactMatch(lowerKeyword, titles[i])]),
           AcceptBest(BestOf([i \in DOMAIN titles |->
                                 CalculateSimilarity(lowerKeyword, titles[i])]),
                      [i \in DOMAIN titles |->
                          CalculateSimilarity(lowerKeyword, titles[i])]))

LowerTitles(list) == [i \in DOMAIN list |-> ToLowerCase(list[i].title)]

\* findGoalByKeyword over the list getGoals returned: the index of the goal
\* found, 0 for null
FindGoalByKeyword(keyword, list) ==
    IF list = <<>> THEN 0
    ELSE MatchIn(TrimBlanks(ToLowerCase(keyword)), LowerTitles(list))

\* the goals of the Goal-Tracker used by the model
GoalGym == [id |-> 1, title |-> <<"G", "y", "m">>, isActive |-> TRUE, progress |-> 40]

GoalAi ==
    [id |-> 2, title |-> <<"a", "i", " ", "i", "o", " ", "u", "p">>,
     isActive |-> TRUE, progress |-> 0]

GoalOld == [id |-> 3, title |-> <<"o", "l", "d">>, isActive |-> FALSE, progress |-> 100]

GoalUp ==
    [id |-> 4, title |-> <<"u", "p", " ", "a", "i", " ", "i", "o", " ", "z">>,
     isActive |-> TRUE, progress |-> 10]

GoalAiToo ==
    [id |-> 5, title |-> <<"u", "p", " ", "i", "o", " ", "a", "i">>,
     isActive |-> TRUE, progress |-> 20]

GoalLists ==
    {<<>>, <<GoalGym>>, <<GoalOld>>, <<GoalGym, GoalAi>>, <<GoalOld, GoalAi, GoalGym>>,
     <<GoalUp, GoalOld>>, <<GoalUp, GoalAiToo, GoalAi>>}

IsActive(g) == g.isActive

\* allGoals without the filter
EveryGoal(list) == list

\* allGoals.filter(g => g.isActive)
ActiveGoals(list) == SelectSeq(list, IsActive)

\* activeGoals.map(g => ({id, title, progress}))
Available(list) ==
    [i \in 1..Len(list) |->
        [id |-> list[i].id, title |-> list[i].title, progress |-> list[i].progress]]

(***************************************************************************)
(* Action Executors.  net tells, for each request of the executor, whether *)
(* the Goal-Tracker answers it (TRUE) or the call fails (FALSE).           *)
(***************************************************************************)
NetOutcomes == [get1 : BOOLEAN, get2 : BOOLEAN, post : BOOLEAN]

Request(method, path, goalId, durationDays) ==
    [method |-> method, path |-> path, goalId |-> goalId, durationDays |-> durationDays]

GetGoals == Request("GET", "/goals", 0, Absent)

PostDailyLog(goalId) == Request("POST", "/daily-logs", goalId, Absent)

PostGoal(durationDays) == Request("POST", "/goals", 0, durationDays)

\* the message of a result: its template and the text the template quotes
Text(template, quoted) == [template |-> template, quoted |-> quoted]

\* what an executor did: the exception or result it ended with, and the
\* requests it sent
Outcome(threw, success, message, needs, available, goalId, sent) ==
    [threw |-> threw, success |-> success, message |-> message,
     needsGoalSelection |-> needs, availableGoals |-> available,
     goalId |-> goalId, sent |-> sent]

Thrown(sent) == Outcome(TRUE, FALSE, Text("none", <<>>), FALSE, <<>>, 0, sent)

Failure(message, sent) ==
    Outcome(FALSE, FALSE, Text(message, <<>>), FALSE, <<>>, 0, sent)

\* the result without needsGoalSelection
NeedsSelectionUnflagged(message, quoted, list, sent) ==
    Outcome(FALSE, FALSE, Text(message, quoted), FALSE, Available(list), 0, sent)

NeedsSelection(message, quoted, list, sent) ==
    Outcome(FALSE, FALSE, Text(message, quoted), TRUE, Available(list), 0, sent)

Success(message, quoted, goalId, sent) ==
    Outcome(FALSE, TRUE, Text(message, quoted), FALSE, <<>>, goalId, sent)

\* dayTrackerAPI.createDailyLog for the resolved goal
SubmitLog(goal, message, quoted, net, sent) ==
    IF net.post
    THEN Success(message, quoted, goal.id, sent \o <<PostDailyLog(goal.id)>>)
    ELSE Thrown(sent \o <<PostDailyLog(goal.id)>>)

\* the try block of DailyLogCreator.createLog
CreateLogBody(goalKeyword, list, net) ==
    IF goalKeyword # NoKeyword
    THEN IF ~net.get1 THEN Thrown(<<GetGoals>>)
         ELSE LET found == FindGoalByKeyword(goalKeyword, list)
              IN  IF found = 0
                  THEN IF ~net.get2 THEN Thrown(<<GetGoals, GetGoals>>)
                       ELSE IF ActiveGoals(list) = <<>>
                            THEN Failure("no active goals", <<GetGoals, GetGoals>>)
                            ELSE NeedsSelection("goal not found", goalKeyword, ActiveGoals(list),
                                                <<GetGoals, GetGoals>>)
                  ELSE SubmitLog(list[found], "Logged successfully for", list[found].title,
                                 net, <<GetGoals>>)
    ELSE IF ~net.get1 THEN Thrown(<<GetGoals>>)
         ELSE LET activeGoals == ActiveGoals(list)
              IN  IF activeGoals = <<>>
                  THEN Failure("no active goals", <<GetGoals>>)
                  ELSE IF Len(activeGoals) = 1
                       THEN SubmitLog(activeGoals[1], "Logged successfully for",
                                      activeGoals[1].title, net, <<GetGoals>>)
                       ELSE NeedsSelection("which goal", <<>>, activeGoals,
                                           <<GetGoals>>)

CreateLog(goalKeyword, list, net) ==
    LET body == CreateLogBody(goalKeyword, list, net)
    IN  IF body.threw THEN Failure("failed to create log", body.sent) ELSE body

\* the title of the reminder, which the message of createReminder quotes
ReminderTitle == <<"r">>

\* the try block of ReminderCreator.createReminder
CreateReminderBody(goalKeyword, list, net) ==
    LET lookedUp == goalKeyword # NoKeyword
        found == IF lookedUp /\ net.get1 THEN FindGoalByKeyword(goalKeyword, list) ELSE 0
        first == IF lookedUp THEN <<GetGoals>> ELSE <<>>
    IN  IF lookedUp /\ ~net.get1 THEN Thrown(<<GetGoals>>)
        ELSE IF found # 0
             THEN SubmitLog(list[found], "Reminder set for", ReminderTitle, net, first)
             ELSE IF ~net.get2 THEN Thrown(first \o <<GetGoals>>)
                  ELSE IF ActiveGoals(list) = <<>>
                       THEN Failure("no active goals", first \o <<GetGoals>>)
                       ELSE SubmitLog(ActiveGoals(list)[1], "Reminder set for",
                                      ReminderTitle, net,
                                      first \o <<GetGoals>>)

CreateReminder(goalKeyword, list, net) ==
    LET body == CreateReminderBody(goalKeyword, list, net)
    IN  IF body.threw THEN Failure("failed to create reminder", body.sent) ELSE body

\* durationDays <= 0 || durationDays > 3650 on the value the entities carry:
\* undefined and non-numeric strings compare as NaN, null as 0
DurationRejected(durationDays) ==
    \/ durationDays.t = "num" /\ (durationDays.n <= 0 \/ durationDays.n > 3650)
    \/ durationDays.t = "null"

\* the try block of GoalCreator.createGoal
CreateGoalBody(durationDays, net) ==
    IF DurationRejected(durationDays)
    THEN Failure("duration must be between 1 and 3650 days", <<>>)
    ELSE IF net.post
         THEN Success("goal created", <<>>, 0, <<PostGoal(durationDays)>>)
         ELSE Thrown(<<PostGoal(durationDays)>>)

CreateGoal(durationDays, net) ==
    LET body == CreateGoalBody(durationDays, net)
    IN  IF body.threw THEN Failure("failed to create goal", body.sent) ELSE body

(***************************************************************************)
(* AIService                                                               *)
(***************************************************************************)
Executors == {"createLog", "createGoal", "createReminder"}

\* the executor executeAction's switch selects ("none" for the default branch)
ExecutorOf(intent) ==
    CASE intent = "create_log" -> "createLog"
      [] intent = "create_goal" -> "createGoal"
      [] intent = "create_reminder" -> "createReminder"
      [] OTHER -> "none"

Undefined ==
    [kind |-> "undefined", success |-> FALSE, message |-> Text("none", <<>>),
     needsGoalSelection |-> FALSE, availableGoals |-> <<>>, goalId |-> 0]

Null == [Undefined EXCEPT !.kind = "null"]

ResultOf(outcome) ==
    [kind |-> "result", success |-> outcome.success, message |-> outcome.message,
     needsGoalSelection |-> outcome.needsGoalSelection,
     availableGoals |-> outcome.availableGoals, goalId |-> outcome.goalId]

FailedToExecute == ResultOf(Failure("Failed to execute action", <<>>))

\* the call of the selected executor; escapes tells whether an exception
\* leaves the executor instead of its result
CallExecutor(result, list, net, escapes) ==
    LET outcome ==
            CASE result.intent = "create_log" ->
                     CreateLog(result.entities.goalKeyword, list, net)
              [] result.intent = "create_goal" ->
                     CreateGoal(result.entities.durationDays, net)
              [] result.intent = "create_reminder" ->
                     CreateReminder(result.entities.goalKeyword, list, net)
    IN  IF escapes THEN Thrown(outcome.sent) ELSE outcome

\* executeAction: what chat receives (threw when an exception leaves it),
\* the executors invoked and the requests sent
Dispatched(threw, value, invoked, sent) ==
    [threw |-> threw, value |-> value, invoked |-> invoked, sent |-> sent]

ExecuteActionNoCatch(result, list, net, escapes) ==
    IF ExecutorOf(result.intent) = "none"
    THEN Dispatched(FALSE, Null, <<>>, <<>>)
    ELSE LET outcome == CallExecutor(result, list, net, escapes)
         IN  Dispatched(outcome.threw, ResultOf(outcome),
                        <<ExecutorOf(result.intent)>>, outcome.sent)

ExecuteAction(result, list, net, escapes) ==
    IF ExecutorOf(result.intent) = "none"
    THEN Dispatched(FALSE, Null, <<>>, <<>>)
    ELSE LET outcome == CallExecutor(result, list, net, escapes)
         IN  Dispatched(FALSE,
                        IF outcome.threw THEN FailedToExecute ELSE ResultOf(outcome),
                        <<ExecutorOf(result.intent)>>, outcome.sent)

ShouldExecuteAtThreshold(result) ==
    result.intent # "chat" /\ ~result.confidence.nan
        /\ result.confidence.n >= DispatchThreshold

\* intentResult.intent !== Intent.CHAT_ONLY && intentResult.confidence > 0.6
ShouldExecute(result) ==
    result.intent # "chat" /\ ~result.confidence.nan
        /\ result.confidence.n > DispatchThreshold

(***************************************************************************)
(* MonitoringScheduler: the store and the state of a cycle                 *)
(***************************************************************************)
\* the users holding Gmail tokens; X is monitored for user 1 alone
Users == {1, 2}

Sources == {"gmail", "twitter"}

MsgIds == {"m1", "m2"}

\* the invocations of a cron callback that can be under way at once
CycleIds == 1..MaxCycles

\* what a fetch can return: the ids of the source's recent items, each once
FetchLists == {<<>>, <<"m1">>, <<"m2">>, <<"m1", "m2">>}

\* minutes of the day at which a cycle reads the clock
Times == {479, 480, 720, 1260, 1261}

NoPrefs == [exists |-> FALSE, wake |-> 0, sleep |-> 0, gmail |-> FALSE, twitter |-> FALSE]

\* the column defaults of ai_preferences: wake_time 08:00, sleep_time 21:00
DefaultPrefs ==
    [exists |-> TRUE, wake |-> 480, sleep |-> 1260, gmail |-> FALSE, twitter |-> FALSE]

\* no check of the hours
AlwaysActive(pref, now) == TRUE

\* isWithinActiveHours: 'HH:MM' is compared as a string with the 'HH:MM:SS'
\* the store returns, so the minute of wake_time itself is before the window
IsWithinActiveHours(pref, now) ==
    IF ~pref.exists THEN TRUE ELSE now > pref.wake /\ now <= pref.sleep

\* updateLastSync: insert the row with the column defaults, or update it
UpdateLastSync(pref, source) ==
    IF source = "gmail"
    THEN [(IF pref.exists THEN pref ELSE DefaultPrefs) EXCEPT !.gmail = TRUE]
    ELSE [(IF pref.exists THEN pref ELSE DefaultPrefs) EXCEPT !.twitter = TRUE]

Key(userId, source, messageId) ==
    [userId |-> userId, source |-> source, messageId |-> messageId]

KeyOf(row) == Key(row.userId, row.source, row.messageId)

RowsOf(rows, key) == {r \in rows : KeyOf(r) = key}

\* isMessageStored
IsMessageStored(rows, key) == RowsOf(rows, key) # {}

\* the constraints of monitored_messages on an insert, without the UNIQUE one
ColumnsAccept(score, category) ==
    ~score.nan /\ score.n \in 1..10 /\ category \in Categories

InsertAcceptedNoUnique(rows, key, score, category) == ColumnsAccept(score, category)

\* whether the INSERT of storeMessage succeeds
InsertAccepted(rows, key, score, category) ==
    ColumnsAccept(score, category) /\ RowsOf(rows, key) = {}

\* email.from / `@${mention.author}` of an item, as characters
From(messageId) == IF messageId = "m1" THEN <<"A", "g">> ELSE <<"g", "x">>

\* the inserted row; rows are told apart by their ordinal among the rows of
\* their key, which is what the serial id distinguishes
NewRow(rows, key, score, category) ==
    [copy |-> Cardinality(RowsOf(rows, key)) + 1, userId |-> key.userId,
     source |-> key.source, messageId |-> key.messageId,
     sender |-> From(key.messageId), score |-> score.n, category |-> category]

\* the model responses the classifier meets during monitoring
MonitorResponses ==
    {[hist |-> "ok", gateway |-> "ok", text |-> <<"V">>,
      value |-> [isNull |-> FALSE, score |-> JNum(15), category |-> Absent]],
     [hist |-> "ok", gateway |-> "ok", text |-> <<"V">>,
      value |-> [isNull |-> FALSE, score |-> Absent, category |-> Absent]]}

IdleCycle == [pc |-> "idle", source |-> "none", queue |-> <<>>, items |-> <<>>]

\* the user and the item a cycle is working on
UserOf(cy) == Head(cy.queue)

ItemKey(cy) == Key(Head(cy.queue), cy.source, Head(cy.items))

\* the cycle ends with the current user
AfterUserStop(cy) == IdleCycle

\* the cycle after the current user: the next user, or the end of the cycle
AfterUser(cy) ==
    IF Len(cy.queue) > 1
    THEN [cy EXCEPT !.pc = "hours", !.queue = Tail(cy.queue), !.items = <<>>]
    ELSE IdleCycle

\* the cycle after the current item, leaving the user after the last item
AfterItemSkipSync(cy) ==
    IF Len(cy.items) > 1
    THEN [cy EXCEPT !.pc = "dedup", !.items = Tail(cy.items)]
    ELSE AfterUser(cy)

\* the cycle after the current item: the next item, or the last-sync update
AfterItem(cy) ==
    [cy EXCEPT !.pc = IF Len(cy.items) > 1 THEN "dedup" ELSE "sync",
               !.items = Tail(cy.items)]

\* rows of SELECT DISTINCT user_id FROM gmail_tokens, taken in ascending
\* order, and of SELECT id FROM users WHERE id = 1 LIMIT 1
UserRows(source) ==
    IF source = "gmail" THEN {<<1, 2>>} ELSE {<<1>>}

\* what a cycle did for one user: the clock and the ai_preferences row its
\* isWithinActiveHours read and what it answered, the store at that time, the
\* list its fetch returned, the steps it took since, in order, and what its
\* classify calls returned
NoPass ==
    [user |-> 0, hours |-> "none", now |-> 0, pref |-> NoPrefs, rows |-> {},
     fetched |-> <<>>, events |-> <<>>, classified |-> <<>>]

Event(kind, item) == [kind |-> kind, item |-> item]

Kinds(pass) == {pass.events[i].kind : i \in DOMAIN pass.events}

\* what is kept of the check of an earlier user of the cycle
Summary(pass) ==
    [user |-> pass.user,
     failed |-> pass.hours = "failed" \/ "fetchFailed" \in Kinds(pass)]

\* fired: the cycles started; source: the source of the cycle; rows: the users the cycle's query returned;
\* done: its earlier users; cur: the user it last came to
NoTrace ==
    [on |-> FALSE, fired |-> 0, source |-> "none", rows |-> <<>>, done |-> <<>>,
     cur |-> NoPass]

Traced(tr) == IF trace.on THEN tr ELSE trace

Started(tr, source) ==
    [tr EXCEPT !.fired = @ + 1, !.source = source, !.rows = <<>>, !.done = <<>>,
               !.cur = NoPass]

BeginPass(tr, userId, hours, now, pref, rows) ==
    [tr EXCEPT !.done = IF tr.cur = NoPass THEN @ ELSE Append(@, Summary(tr.cur)),
               !.cur = [NoPass EXCEPT !.user = userId, !.hours = hours, !.now = now,
                                      !.pref = pref, !.rows = rows]]

Observed(tr, event) == [tr EXCEPT !.cur.events = Append(@, event)]

ClassifyAnswered(tr, item, result) ==
    [tr EXCEPT !.cur.classified =
                   Append(@, [item |-> item, score |-> result.score,
                              category |-> result.category])]

MonitorIdle ==
    /\ store = {}
    /\ prefs = [u \in Users |-> NoPrefs]
    /\ cycles = [c \in CycleIds |-> IdleCycle]
    /\ completed = {}
    /\ trace = NoTrace

(***************************************************************************)
(* Feedback: POST /feedback/:id and MessageClassifier.storeFeedback        *)
(***************************************************************************)
SubmissionIds == 1..MaxSubmissions

\* the serial id of a row of monitored_messages: ids are only compared for
\* equality, so one number per (user, source, message) stands for it
SerialId(row) ==
    4 * (row.userId - 1) + (IF row.source = "gmail" THEN 0 ELSE 2)
        + (IF row.messageId = "m1" THEN 1 ELSE 2)

\* SELECT importance_score, user_id FROM monitored_messages WHERE id = $1
RowsWithId(rows, id) == {r \in rows : SerialId(r) = id}

\* the request bodies: correctedScore and feedbackText
Body(correctedScore, feedbackText) ==
    [correctedScore |-> correctedScore, feedbackText |-> feedbackText]

Bodies ==
    {Body(Absent, Absent), Body(JNum(0), Absent), Body(JNum(11), Absent),
     Body(JNum(2), Absent), Body(JNum(9), JStr("note"))}

\* feedbackSchema: correctedScore is a required number from 1 to 10
SchemaAccepts(correctedScore) ==
    correctedScore.t = "num" /\ correctedScore.n >= 1 /\ correctedScore.n <= 10

\* newCategory of the route
NewCategory(correctedScore) ==
    IF correctedScore >= 8 THEN "high"
    ELSE IF correctedScore >= 5 THEN "medium" ELSE "low"

\* a row of message_feedback
FeedbackRow(messageId, userId, originalScore, correctedScore, feedbackText) ==
    [messageId |-> messageId, userId |-> userId, originalScore |-> originalScore,
     correctedScore |-> correctedScore, feedbackText |-> feedbackText]

UpdateMessageScoreOnly(rows, id, correctedScore) ==
    {IF SerialId(r) = id THEN [r EXCEPT !.score = correctedScore] ELSE r : r \in rows}

\* UPDATE monitored_messages SET importance_score, classification WHERE id
UpdateMessage(rows, id, correctedScore) ==
    {IF SerialId(r) = id
     THEN [r EXCEPT !.score = correctedScore, !.category = NewCategory(correctedScore)]
     ELSE r : r \in rows}

IdleSubmission ==
    [pc |-> "idle", userId |-> 0, id |-> 0, correctedScore |-> Absent,
     feedbackText |-> Absent, originalScore |-> 0, status |-> 0]

NoPrompt == [userId |-> 0, sender |-> <<>>, learning |-> <<>>]

FeedbackIdle ==
    /\ prompt = NoPrompt
    /\ feedback = <<>>
    /\ submissions = [r \in SubmissionIds |-> IdleSubmission]

(***************************************************************************)
(* One chat turn: AIService.chat                                           *)
(***************************************************************************)
NoIntent ==
    [threw |-> FALSE, intent |-> "none", confidence |-> NaN, entities |-> NoEntities]

Row(messageType, sessionId) == [messageType |-> messageType, sessionId |-> sessionId]

ChatIdle ==
    /\ pc = "idle"
    /\ jwtToken = ""
    /\ goals = <<>>
    /\ intentResult = NoIntent
    /\ executed = <<>>
    /\ escaped = FALSE
    /\ actionResult = Undefined
    /\ requests = <<>>
    /\ messages = <<>>
    /\ failure = "none"

Fail(step) ==
    /\ pc' = "error"
    /\ failure' = step

\* conversationService.getContext
GetContext ==
    /\ pc = "start"
    /\ \E ok \in BOOLEAN :
           IF ok
           THEN /\ pc' = IF jwtToken # "" THEN "analyze" ELSE "compose"
                /\ UNCHANGED failure
           ELSE Fail("getContext")
    /\ UNCHANGED <<jwtToken, goals, intentResult, executed, escaped, actionResult,
                   requests, messages, otherThanChat>>

\* intentService.analyzeIntent(message)
Analyze ==
    /\ pc = "analyze"
    /\ \E gateway \in GatewayOutcomes, text \in Texts, value \in IntentValues :
           LET result == AnalyzeIntent(gateway, text, value)
           IN  /\ intentResult' = result
               /\ IF result.threw
                  THEN Fail("analyzeIntent")
                  ELSE pc' = "dispatch" /\ UNCHANGED failure
    /\ UNCHANGED <<jwtToken, goals, executed, escaped, actionResult, requests,
                   messages, otherThanChat>>

\* the confidence gate of chat and executeAction
Dispatch ==
    /\ pc = "dispatch"
    /\ IF ShouldExecute(intentResult)
       THEN \E net \in NetOutcomes, escapes \in BOOLEAN :
                LET done == ExecuteAction(intentResult, goals, net, escapes)
                IN  /\ executed' = executed \o done.invoked
                    /\ escaped' = (done.invoked # <<>> /\ escapes)
                    /\ requests' =
                           requests \o [i \in 1..Len(done.sent) |->
                                           [token |-> jwtToken, request |-> done.sent[i]]]
                    /\ actionResult' = done.value
                    /\ IF done.threw
                       THEN Fail("executeAction")
                       ELSE pc' = "compose" /\ UNCHANGED failure
       ELSE /\ pc' = "compose"
            /\ UNCHANGED <<executed, escaped, requests, actionResult, failure>>
    /\ UNCHANGED <<jwtToken, goals, intentResult, messages, otherThanChat>>

\* the composed response: generateContentWithRetry over chat.sendMessage
Compose ==
    /\ pc = "compose"
    /\ \E gateway \in GatewayOutcomes :
           IF gateway = "ok"
           THEN pc' = "storeUser" /\ UNCHANGED failure
           ELSE Fail("compose")
    /\ UNCHANGED <<jwtToken, goals, intentResult, executed, escaped, actionResult,
                   requests, messages, otherThanChat>>

\* conversationService.storeMessage(userId, sessionId, 'user', message)
StoreUser ==
    /\ pc = "storeUser"
    /\ \E ok \in BOOLEAN :
           IF ok
           THEN /\ messages' = Append(messages, Row("user", "session"))
                /\ pc' = "storeAssistant"
                /\ UNCHANGED failure
           ELSE Fail("storeMessage") /\ UNCHANGED messages
    /\ UNCHANGED <<jwtToken, goals, intentResult, executed, escaped, actionResult,
                   requests, otherThanChat>>

\* conversationService.storeMessage(userId, sessionId, 'assistant', responseText)
StoreAssistant ==
    /\ pc = "storeAssistant"
    /\ \E ok \in BOOLEAN :
           IF ok
           THEN /\ messages' = Append(messages, Row("assistant", "session"))
                /\ pc' = "updateContext"
                /\ UNCHANGED failure
           ELSE Fail("storeMessage") /\ UNCHANGED messages
    /\ UNCHANGED <<jwtToken, goals, intentResult, executed, escaped, actionResult,
                   requests, otherThanChat>>

\* conversationService.updateContext(userId), then the ChatResponse is returned
UpdateContext ==
    /\ pc = "updateContext"
    /\ \E ok \in BOOLEAN :
           IF ok
           THEN pc' = "done" /\ UNCHANGED failure
           ELSE Fail("updateContext")
    /\ UNCHANGED <<jwtToken, goals, intentResult, executed, escaped, actionResult,
                   requests, messages, otherThanChat>>

AnalyzeIdle ==
    /\ anaReq = [gateway |-> "ok", text |-> <<>>,
                 value |-> [isNull |-> TRUE, intent |-> "", confidence |-> Absent,
                            durationDays |-> Absent, goalKeyword |-> NoKeyword]]
    /\ anaRes = NoIntent

ClassifyIdle ==
    /\ clsReq = [hist |-> "ok", gateway |-> "ok", text |-> <<>>,
                 value |-> [isNull |-> TRUE, score |-> Absent, category |-> Absent]]
    /\ clsRes = [threw |-> FALSE, score |-> NaN, category |-> "none", reasoning |-> "none"]

ChatInit ==
    /\ pc = "start"
    /\ jwtToken \in {"", "token"}
    /\ goals \in GoalLists
    /\ intentResult = NoIntent
    /\ executed = <<>>
    /\ escaped = FALSE
    /\ actionResult = Undefined
    /\ requests = <<>>
    /\ messages = <<>>
    /\ failure = "none"
    /\ ClassifyIdle
    /\ AnalyzeIdle
    /\ MonitorIdle
    /\ FeedbackIdle
    /\ ServicesIdle

ChatNext ==
    \/ GetContext
    \/ Analyze
    \/ Dispatch
    \/ Compose
    \/ StoreUser
    \/ StoreAssistant
    \/ UpdateContext

SpecChat == ChatInit /\ [][ChatNext]_vars


(***************************************************************************)
(* MonitoringScheduler: the cycles                                         *)
(***************************************************************************)
\* a cron tick of a source's job: the callback starts whatever else is running
TimerFire(c, source) ==
    /\ cycles[c].pc = "idle"
    /\ \A d \in CycleIds : d < c => cycles[d].pc # "idle"
    /\ cycles' = [cycles EXCEPT ![c] = [IdleCycle EXCEPT !.pc = "users",
                                                         !.source = source]]
    /\ trace' = Traced(Started(trace, source))
    /\ UNCHANGED <<store, prefs, completed, otherThanMonitor>>

\* checkGmailForAllUsers / checkXForAllUsers: the query for the users; a failure
\* leaves the callback
QueryUsers(c) ==
    /\ cycles[c].pc = "users"
    /\ \/ \E rows \in UserRows(cycles[c].source) :
              /\ cycles' = [cycles EXCEPT ![c] = [@ EXCEPT !.pc = "hours", !.queue = rows]]
              /\ trace' = Traced([trace EXCEPT !.rows = rows])
       \/ /\ cycles' = [cycles EXCEPT ![c] = IdleCycle]
          /\ UNCHANGED trace
    /\ UNCHANGED <<store, prefs, completed, otherThanMonitor>>

\* isWithinActiveHours for the current user; its exception is caught by the
\* try of checkGmailForUser / checkXForUser
CheckHours(c) ==
    /\ cycles[c].pc = "hours"
    /\ \/ \E now \in Times :
              /\ cycles' = [cycles EXCEPT ![c] =
                               IF IsWithinActiveHours(prefs[UserOf(@)], now)
                               THEN [@ EXCEPT !.pc = "fetch"]
                               ELSE AfterUser(@)]
              /\ trace' = Traced(BeginPass(trace, UserOf(cycles[c]),
                                           IF IsWithinActiveHours(prefs[UserOf(cycles[c])], now)
                                           THEN "yes" ELSE "no",
                                           now, prefs[UserOf(cycles[c])], store))
       \/ /\ cycles' = [cycles EXCEPT ![c] = AfterUser(@)]
          /\ trace' = Traced(BeginPass(trace, UserOf(cycles[c]), "failed", 0,
                                       prefs[UserOf(cycles[c])], store))
    /\ UNCHANGED <<store, prefs, completed, otherThanMonitor>>

\* fetchRecentUnreadEmails / fetchRecentMentions
Fetch(c) ==
    /\ cycles[c].pc = "fetch"
    /\ \/ \E list \in FetchLists :
              /\ cycles' = [cycles EXCEPT ![c] =
                               [@ EXCEPT !.pc = IF list = <<>> THEN "sync" ELSE "dedup",
                                         !.items = list]]
              /\ trace' = Traced([Observed(trace, Event("fetch", ""))
                                     EXCEPT !.cur.fetched = list])
       \/ /\ cycles' = [cycles EXCEPT ![c] = AfterUser(@)]
          /\ trace' = Traced(Observed(trace, Event("fetchFailed", "")))
    /\ UNCHANGED <<store, prefs, completed, otherThanMonitor>>

\* isMessageStored for the current item: the SELECT reads the store; a stored
\* item is skipped (continue), and the exception of a failed query is caught
\* by the try around the item.  The answer that the item is not stored
\* reaches the cycle in a later step
DedupCheck(c) ==
    /\ cycles[c].pc = "dedup"
    /\ \/ /\ IsMessageStored(store, ItemKey(cycles[c]))
          /\ cycles' = [cycles EXCEPT ![c] = AfterItem(@)]
          /\ completed' = completed \cup {ItemKey(cycles[c])}
          /\ trace' = Traced(Observed(trace, Event("skip", Head(cycles[c].items))))
       \/ /\ ~IsMessageStored(store, ItemKey(cycles[c]))
          /\ cycles' = [cycles EXCEPT ![c] = [@ EXCEPT !.pc = "fresh"]]
          /\ UNCHANGED completed
          /\ trace' = Traced(Observed(trace, Event("fresh", Head(cycles[c].items))))
       \/ /\ cycles' = [cycles EXCEPT ![c] = AfterItem(@)]
          /\ UNCHANGED completed
          /\ trace' = Traced(Observed(trace, Event("dedupFailed", Head(cycles[c].items))))
    /\ UNCHANGED <<store, prefs, otherThanMonitor>>

\* the answer has arrived: messageClassifier.classify is called for the item
CallClassify(c) ==
    /\ cycles[c].pc = "fresh"
    /\ cycles' = [cycles EXCEPT ![c] = [@ EXCEPT !.pc = "classify"]]
    /\ trace' = Traced(Observed(trace, Event("classify", Head(cycles[c].items))))
    /\ UNCHANGED <<store, prefs, completed, otherThanMonitor>>

\* the INSERT with the column defaults in place of the classification
StoreMessageUnclassified(rows, key, result) ==
    IF InsertAccepted(rows, key, FallbackClassify.score, FallbackClassify.category)
    THEN rows \cup {NewRow(rows, key, FallbackClassify.score, FallbackClassify.category)}
    ELSE rows

\* the INSERT of storeMessage into the rows
StoreMessage(rows, key, result) ==
    IF InsertAccepted(rows, key, result.score, result.category)
    THEN rows \cup {NewRow(rows, key, result.score, result.category)}
    ELSE rows

\* messageClassifier.classify and storeMessage for the current item: classify
\* reads nothing the cycles write, so the two are one step.  A rejected INSERT
\* or a failed connection throws, which the try around the item catches
ClassifyAndStore(c) ==
    /\ cycles[c].pc = "classify"
    /\ \/ \E r \in MonitorResponses :
              /\ store' = StoreMessage(store, ItemKey(cycles[c]),
                                       Classify(r.hist, r.gateway, r.text, r.value))
              /\ completed' = IF store' # store
                              THEN completed \cup {ItemKey(cycles[c])}
                              ELSE completed
              /\ trace' = Traced(ClassifyAnswered(
                               Observed(trace, Event(IF store' # store THEN "insert"
                                                                       ELSE "itemFailed",
                                                     Head(cycles[c].items))),
                               Head(cycles[c].items),
                               Classify(r.hist, r.gateway, r.text, r.value)))
       \/ /\ UNCHANGED <<store, completed>>
          /\ trace' = Traced(Observed(trace, Event("itemFailed", Head(cycles[c].items))))
    /\ cycles' = [cycles EXCEPT ![c] = AfterItem(@)]
    /\ UNCHANGED <<prefs, otherThanMonitor>>

\* updateLastSync after the items of the user; its exception is caught
Sync(c) ==
    /\ cycles[c].pc = "sync"
    /\ \/ /\ prefs' = [prefs EXCEPT ![UserOf(cycles[c])] =
                          UpdateLastSync(@, cycles[c].source)]
          /\ trace' = Traced(Observed(trace, Event("sync", "")))
       \/ /\ UNCHANGED prefs
          /\ trace' = Traced(Observed(trace, Event("syncFailed", "")))
    /\ cycles' = [cycles EXCEPT ![c] = AfterUser(@)]
    /\ UNCHANGED <<store, completed, otherThanMonitor>>

MonitorInit ==
    /\ MonitorIdle
    /\ FeedbackIdle
    /\ ServicesIdle
    /\ ClassifyIdle
    /\ AnalyzeIdle
    /\ ChatIdle

MonitorNext ==
    \E c \in CycleIds :
        \/ \E source \in Sources : TimerFire(c, source)
        \/ QueryUsers(c)
        \/ CheckHours(c)
        \/ Fetch(c)
        \/ DedupCheck(c)
        \/ CallClassify(c)
        \/ ClassifyAndStore(c)
        \/ Sync(c)

SpecMonitor == MonitorInit /\ [][MonitorNext]_vars

\* a window set through PUT /preferences: 08:00 to 12:00
ConfiguredPrefs == [DefaultPrefs EXCEPT !.sleep = 720]

\* the row of a user: none before GET /preferences or a first updateLastSync,
\* the column defaults after, or a configured window
PrefsRows == {NoPrefs, DefaultPrefs, [DefaultPrefs EXCEPT !.gmail = TRUE], ConfiguredPrefs}

\* the store before the cycle: empty, or holding an item of an earlier cycle
StoresBefore ==
    {{}, {NewRow({}, Key(1, "gmail", "m1"), Num(5), "medium")}}

\* one observed cycle of the scheduler
CycleInit ==
    /\ store \in StoresBefore
    /\ prefs \in [Users -> PrefsRows]
    /\ cycles = [c \in CycleIds |-> IdleCycle]
    /\ completed = {}
    /\ trace = [NoTrace EXCEPT !.on = TRUE]
    /\ FeedbackIdle
    /\ ServicesIdle
    /\ ClassifyIdle
    /\ AnalyzeIdle
    /\ ChatIdle

CycleNext ==
    \/ trace.fired < MaxObserved /\ \E source \in Sources : TimerFire(1, source)
    \/ QueryUsers(1)
    \/ CheckHours(1)
    \/ Fetch(1)
    \/ DedupCheck(1)
    \/ CallClassify(1)
    \/ ClassifyAndStore(1)
    \/ Sync(1)

SpecCycle == CycleInit /\ [][CycleNext]_vars

\* the cycle when its collaborators respond: every await of the callback
\* resumes, with a result or an exception
RespondingInit ==
    /\ CycleInit
    /\ prefs = [u \in Users |-> DefaultPrefs]

SpecCycleResponding ==
    /\ RespondingInit
    /\ [][CycleNext]_vars
    /\ WF_vars(QueryUsers(1))
    /\ WF_vars(CheckHours(1))
    /\ WF_vars(Fetch(1))
    /\ WF_vars(DedupCheck(1))
    /\ WF_vars(CallClassify(1))
    /\ WF_vars(ClassifyAndStore(1))
    /\ WF_vars(Sync(1))

(***************************************************************************)
(* Properties of the monitoring cycles                                     *)
(***************************************************************************)
Running(source) == {c \in CycleIds : cycles[c].pc # "idle" /\ cycles[c].source = source}

AllKeys == {Key(u, s, m) : u \in Users, s \in Sources, m \in MsgIds}

\* the user the observed cycle last came to
Pass == trace.cur

\* the clock read lies outside the window of the row read
OutsideWindow(pass) == pass.now < pass.pref.wake \/ pass.now > pass.pref.sleep

\* isWithinActiveHours answered for a user with a row, at a time outside its window
ReachedOutside ==
    /\ Pass.hours \in {"yes", "no"}
    /\ Pass.pref.exists
    /\ OutsideWindow(Pass)

\* C18: when a cycle reaches a user at a time outside the user's configured
\* window, it does nothing for that user: no fetch, no classify call, no
\* insert and no last-sync update - the cycle is at the next user or over,
\* and the store and the user's row are as the check found them.
C18_OutsideWindowNothingDone ==
    ReachedOutside =>
        /\ Pass.events = <<>>
        /\ cycles[1].pc \in {"hours", "idle"}
        /\ store = Pass.rows
        /\ prefs[Pass.user] = Pass.pref

\* at 21:00, user 1, whose window is 08:00 to 12:00, was skipped by a Gmail
\* cycle that went on to user 2
C18_Witness ==
    /\ ReachedOutside
    /\ Pass.user = 1
    /\ Pass.pref = ConfiguredPrefs
    /\ Pass.now = 1260
    /\ Pass.hours = "no"
    /\ cycles[1].pc = "hours"
    /\ UserOf(cycles[1]) = 2

\* the user has no configured window: no row, or the row of the defaults
Unconfigured(pref) == ~pref.exists \/ (pref.wake = 480 /\ pref.sleep = 1260)

\* C19: for a user without a configured window every cycle is gated by the
\* default window 08:00-21:00: the user is processed at a time within it and
\* skipped at a time outside it.
C19_DefaultWindowGates ==
    (Pass.hours \in {"yes", "no"} /\ Unconfigured(Pass.pref)) =>
        (Pass.hours = "yes" <=> Pass.now \in 480..1260)

\* the items of the fetch the cycle is done with, in order, each whatever
\* came of it
Visited(pass) ==
    LET ends == SelectSeq(pass.events,
                          LAMBDA e : e.kind \in {"skip", "dedupFailed", "insert", "itemFailed"})
    IN  [i \in DOMAIN ends |-> ends[i].item]

\* the users the cycle has come to, in order
Reached ==
    [i \in DOMAIN trace.done |-> trace.done[i].user]
        \o (IF Pass = NoPass THEN <<>> ELSE <<Pass.user>>)

\* C20: a failure of the dedup check, of classify or of the insert of one item
\* does not stop the cycle - the items done with and the items still to come
\* are together the fetched list, so every item is reached; and a failure of
\* the whole check of one user does not stop it either - the users reached
\* and the users still to come are together the rows of the users query.
C20_FailuresDoNotStopTheCycle ==
    /\ "fetch" \in Kinds(Pass) => Visited(Pass) \o cycles[1].items = Pass.fetched
    /\ trace.rows # <<>> =>
           Reached \o (IF cycles[1].pc \in {"fetch", "dedup", "fresh", "classify", "sync"}
                       THEN Tail(cycles[1].queue)
                       ELSE cycles[1].queue)
               = trace.rows
    /\ (trace.rows # <<>> /\ cycles[1].pc = "idle") => Reached = trace.rows

\* a Gmail cycle is over: the fetch of user 1 failed, and of the two items of
\* user 2 the first failed and the second was inserted
C20_Witness ==
    /\ cycles[1].pc = "idle"
    /\ trace.rows = <<1, 2>>
    /\ trace.done = <<[user |-> 1, failed |-> TRUE]>>
    /\ Pass.user = 2
    /\ Pass.fetched = <<"m1", "m2">>
    /\ Visited(Pass) = <<"m1", "m2">>
    /\ Event("itemFailed", "m1") \in {Pass.events[i] : i \in DOMAIN Pass.events}
    /\ Event("insert", "m2") \in {Pass.events[i] : i \in DOMAIN Pass.events}
    /\ IsMessageStored(store, Key(2, "gmail", "m2"))
    /\ ~IsMessageStored(store, Key(2, "gmail", "m1"))

\* the cycle has left the user it last came to
PassOver == Pass # NoPass /\ cycles[1].pc \in {"hours", "idle"}

LastKind(pass) == pass.events[Len(pass.events)].kind

\* gmail_last_sync / twitter_last_sync of the row is set
LastSyncSet(pref, source) ==
    pref.exists /\ (IF source = "gmail" THEN pref.gmail ELSE pref.twitter)

\* C21: once the items fetched for a user have all been visited, the cycle
\* writes the last-sync timestamp of its source, whatever came of the items:
\* a cycle that fetched for a user leaves the user only through
\* updateLastSync, called after the last item, and the timestamp is set as
\* soon as the store answers that call.
C21_LastSyncAfterItems ==
    /\ ("fetch" \in Kinds(Pass) /\ PassOver) =>
           /\ Visited(Pass) = Pass.fetched
           /\ LastKind(Pass) \in {"sync", "syncFailed"}
           /\ LastKind(Pass) = "sync" => LastSyncSet(prefs[Pass.user], trace.source)
    /\ ("fetch" \in Kinds(Pass) /\ ~PassOver /\ Visited(Pass) = Pass.fetched) =>
           cycles[1].pc = "sync"

\* of the two items fetched for user 1, who had no row, neither was
\* persisted, and the Gmail last-sync timestamp was written
C21_Witness ==
    /\ PassOver
    /\ Pass.user = 1
    /\ ~Pass.pref.exists
    /\ trace.source = "gmail"
    /\ Pass.fetched = <<"m1", "m2">>
    /\ store = {}
    /\ LastKind(Pass) = "sync"
    /\ LastSyncSet(prefs[1], "gmail")

\* the steps that open and close the visit of an item
OpensItem == {"skip", "fresh", "dedupFailed"}

ClosesItem == {"skip", "dedupFailed", "insert", "itemFailed"}

\* the number of items whose visit was opened before step k
OpenedBefore(pass, k) ==
    Cardinality({j \in 1..(k - 1) : pass.events[j].kind \in OpensItem})

\* step k of the pass comes where the cycle allows it
InOrder(pass, k) ==
    LET ev == pass.events[k]
        before == pass.events[k - 1]
    IN  CASE ev.kind \in {"fetch", "fetchFailed"} -> k = 1
          [] ev.kind \in OpensItem ->
                 /\ k > 1
                 /\ before.kind \in ClosesItem \cup {"fetch"}
                 /\ OpenedBefore(pass, k) < Len(pass.fetched)
                 /\ ev.item = pass.fetched[OpenedBefore(pass, k) + 1]
          [] ev.kind = "classify" -> k > 1 /\ before = Event("fresh", ev.item)
          [] ev.kind \in {"insert", "itemFailed"} ->
                 k > 1 /\ before = Event("classify", ev.item)
          [] ev.kind \in {"sync", "syncFailed"} ->
                 /\ k > 1
                 /\ k = Len(pass.events)
                 /\ before.kind \in ClosesItem \cup {"fetch"}
                 /\ OpenedBefore(pass, k) = Len(pass.fetched)
          [] OTHER -> FALSE

\* nothing follows a failed fetch
StepsInOrder(pass) ==
    /\ \A k \in DOMAIN pass.events : InOrder(pass, k)
    /\ "fetchFailed" \in Kinds(pass) => Len(pass.events) = 1

\* what the last classify call of the pass returned
LastClassified(pass) == pass.classified[Len(pass.classified)]

\* a row is inserted by the step that follows the classify call for its item,
\* which followed the dedup check that found nothing, with what classify returned
PersistsClassified ==
    \A row \in store' \ store :
        /\ Len(Pass.events) >= 2
        /\ Pass.events[Len(Pass.events)] = Event("classify", row.messageId)
        /\ Pass.events[Len(Pass.events) - 1] = Event("fresh", row.messageId)
        /\ ~IsMessageStored(Pass.rows, KeyOf(row))
        /\ KeyOf(row) = Key(Pass.user, trace.source, row.messageId)
        /\ Len(trace'.cur.classified) = Len(Pass.classified) + 1
        /\ LastClassified(trace'.cur).item = row.messageId
        /\ row.score = LastClassified(trace'.cur).score.n
        /\ row.category = LastClassified(trace'.cur).category

\* C28: within one cycle, for one user and source, the steps come only in the
\* order fetch, then for each fetched item in turn the dedup check followed
\* by either the skip or classify and then persist, then the last-sync
\* update; a message is persisted only after the dedup check of its item
\* found nothing and the classify call for it returned in the same cycle,
\* with the score and category of that result; the last-sync update comes
\* only after every fetched item was visited; and every started cycle
\* returns to idle when its collaborators respond.
C28_StepsOfACycleInOrder ==
    /\ []StepsInOrder(Pass)
    /\ [][PersistsClassified]_vars
    /\ [](cycles[1].pc # "idle" => <>(cycles[1].pc = "idle"))

\* the cycle is over: the first item of user 2 was stored already and was
\* skipped, the second was classified above the range and persisted as 10, critical
C28_Witness ==
    /\ cycles[1].pc = "idle"
    /\ Pass.user = 1
    /\ Pass.events = <<Event("fetch", ""), Event("skip", "m1"), Event("fresh", "m2"),
                       Event("classify", "m2"), Event("insert", "m2"), Event("sync", "")>>
    /\ \E row \in store :
           /\ KeyOf(row) = Key(1, trace.source, "m2")
           /\ row.score = LastClassified(Pass).score.n
           /\ row.category = LastClassified(Pass).category

\* C1: whatever the interleaving of cycles, the store never holds two rows of
\* one (userId, source, messageId), and holds one as soon as a processing of
\* that item has completed without error.
C1_OneRowPerKey ==
    \A key \in AllKeys :
        /\ Cardinality(RowsOf(store, key)) <= 1
        /\ key \in completed => Cardinality(RowsOf(store, key)) = 1

\* a cycle has passed the dedup check of an item which an overlapping cycle of
\* the same source has stored since: its INSERT is the second of the key
C1_Witness ==
    /\ cycles[2].pc = "classify"
    /\ cycles[1].pc # "idle"
    /\ cycles[1].source = cycles[2].source
    /\ IsMessageStored(store, ItemKey(cycles[2]))

\* C11: in every step in which a cycle calls classify for an item, the store
\* holds no row of the item's (userId, source, messageId).
C11_NoClassifyOfStoredItem ==
    [][\A c \in CycleIds :
          (cycles[c].pc = "fresh" /\ cycles'[c].pc = "classify")
              => ~IsMessageStored(store, ItemKey(cycles[c]))]_vars

\* C10: two cycles of the same source never run at the same time.
C10_NoOverlapPerSource ==
    \A source \in Sources : Cardinality(Running(source)) <= 1

(***************************************************************************)
(* One call of IntentService.analyzeIntent                                 *)
(***************************************************************************)
AnalyzeRequests == [gateway : GatewayOutcomes, text : Texts, value : IntentValues]

AnalyzeInit ==
    /\ anaReq \in AnalyzeRequests
    /\ anaRes = NoIntent
    /\ ClassifyIdle
    /\ ChatIdle
    /\ MonitorIdle
    /\ FeedbackIdle
    /\ ServicesIdle

AnalyzeCall ==
    /\ anaRes = NoIntent
    /\ anaRes' = AnalyzeIntent(anaReq.gateway, anaReq.text, anaReq.value)
    /\ UNCHANGED <<anaReq, otherThanAnalyze>>

AnalyzeNext == AnalyzeCall

SpecAnalyze == AnalyzeInit /\ [][AnalyzeNext]_vars

(***************************************************************************)
(* Properties of analyzeIntent                                             *)
(***************************************************************************)
AnalyzeReturned == anaRes # NoIntent

\* C4: analyzeIntent never throws, and a failed gateway call, a response that
\* is not JSON after the code fence is stripped, or an intent outside the
\* enumeration yields intent chat with confidence 1.0 and empty entities.
C4_DegradesToChatOnly ==
    AnalyzeReturned =>
        /\ ~anaRes.threw
        /\ anaRes.intent \in Intents
        /\ (\/ anaReq.gateway = "fails"
            \/ ~JsonParses(StripCodeFence(anaReq.text))
            \/ anaReq.value.intent \notin Intents)
               => /\ anaRes.intent = "chat"
                  /\ anaRes.confidence = Num(10)
                  /\ anaRes.entities = [durationDays |-> Absent, goalKeyword |-> <<>>]

C4_Witness ==
    /\ AnalyzeReturned
    /\ anaReq.gateway = "ok"
    /\ anaReq.text = <<"FJ", "X", "F">>
    /\ anaReq.value.intent = "create_goal"
    /\ anaRes.intent = "chat"

\* C8: every confidence analyzeIntent returns lies within [0, 1] (0..10 tenths).
C8_ConfidenceInRange ==
    AnalyzeReturned => ~anaRes.confidence.nan /\ anaRes.confidence.n \in 0..10

(***************************************************************************)
(* Properties of the chat turn                                             *)
(***************************************************************************)
PastDispatch ==
    \/ pc \in {"compose", "storeUser", "storeAssistant", "updateContext", "done"}
    \/ pc = "error" /\ failure \in {"compose", "storeMessage", "updateContext"}

Analyzed == intentResult # NoIntent

\* C6: an executor is invoked only for an intent other than chat with a
\* confidence strictly above 0.6, and then exactly the one of that intent, whose
\* requests are the only ones sent; for every other intent nothing is invoked,
\* nothing is sent and the action result is null (undefined when the gate
\* did not pass).
C6_ConfidenceGatedDispatch ==
    /\ Len(executed) <= 1
    /\ executed # <<>> =>
           /\ intentResult.intent # "chat"
           /\ ~intentResult.confidence.nan /\ intentResult.confidence.n > 6
           /\ \/ intentResult.intent = "create_log" /\ executed = <<"createLog">>
              \/ intentResult.intent = "create_goal" /\ executed = <<"createGoal">>
              \/ intentResult.intent = "create_reminder"
                     /\ executed = <<"createReminder">>
    /\ \A i \in DOMAIN requests :
           /\ executed # <<>>
           /\ requests[i].request.path = "/goals" /\ requests[i].request.method = "POST"
                  => executed = <<"createGoal">>
           /\ requests[i].request.path = "/daily-logs"
                  => executed \in {<<"createLog">>, <<"createReminder">>}
           /\ requests[i].request.method = "GET"
                  => executed \in {<<"createLog">>, <<"createReminder">>}
    /\ (PastDispatch /\ Analyzed
            /\ (intentResult.intent = "chat" \/ intentResult.confidence.n <= 6))
           => executed = <<>> /\ requests = <<>> /\ actionResult.kind = "undefined"
    /\ (PastDispatch /\ Analyzed
            /\ intentResult.intent \in {"update_goal", "get_status", "get_summary"}
            /\ intentResult.confidence.n > 6)
           => executed = <<>> /\ requests = <<>> /\ actionResult.kind = "null"

C6_Witness ==
    /\ pc = "done"
    /\ executed = <<"createReminder">>
    /\ intentResult.confidence = Num(7)
    /\ Len(requests) = 3

\* C7: an exception leaving the invoked executor, or a failure it reports, never
\* ends the turn: the dispatcher turns the exception into success false with
\* message "Failed to execute action", the turn goes on to compose, and a turn
\* that returns has persisted the user message and then the response.
C7_ActionFailureDoesNotAbortTurn ==
    /\ failure \notin {"executeAction", "analyzeIntent"}
    /\ escaped =>
           /\ actionResult.kind = "result"
           /\ ~actionResult.success
           /\ actionResult.message = Text("Failed to execute action", <<>>)
    /\ (executed # <<>> /\ ~actionResult.success) => PastDispatch
    /\ pc = "done" =>
           messages = <<[messageType |-> "user", sessionId |-> "session"],
                        [messageType |-> "assistant", sessionId |-> "session"]>>

C7_Witness ==
    /\ pc = "done"
    /\ escaped
    /\ executed = <<"createLog">>
    /\ Len(messages) = 2

\* C9: a create-goal request is sent only with 1 <= durationDays <= 3650; for
\* every other supplied value (absent included) no request is sent.
C9_GoalRequestOnlyInRange ==
    \A i \in DOMAIN requests :
        (requests[i].request.method = "POST" /\ requests[i].request.path = "/goals")
            => /\ requests[i].request.durationDays.t = "num"
               /\ requests[i].request.durationDays.n \in 1..3650

(***************************************************************************)
(* Properties of goal resolution                                           *)
(***************************************************************************)
\* the keyword the dispatched intent carries
GoalKeyword == intentResult.entities.goalKeyword

\* the requests the executor sent, in order
Sent == [i \in DOMAIN requests |-> requests[i].request]

\* the positions of the goals whose lower-cased title contains the keyword or
\* is contained in it
SubstringMatches(keyword, list) ==
    {i \in DOMAIN list :
        \/ Includes(ToLowerCase(list[i].title), keyword)
        \/ Includes(keyword, ToLowerCase(list[i].title))}

SimilarityTo(keyword, list, i) ==
    Jaccard(WordSet(keyword), WordSet(ToLowerCase(list[i].title)))

\* the earliest position of maximum similarity to the keyword
MostSimilar(keyword, list) ==
    CHOOSE i \in DOMAIN list :
        /\ \A j \in DOMAIN list :
               SimilarityTo(keyword, list, j).num * SimilarityTo(keyword, list, i).den
                   <= SimilarityTo(keyword, list, i).num * SimilarityTo(keyword, list, j).den
        /\ \A j \in 1..(i - 1) :
               SimilarityTo(keyword, list, j).num * SimilarityTo(keyword, list, i).den
                   < SimilarityTo(keyword, list, i).num * SimilarityTo(keyword, list, j).den

\* the position the goal of the stated rule has in the list, 0 for null
ExpectedGoal(keyword, list) ==
    IF list = <<>> THEN 0
    ELSE IF SubstringMatches(keyword, list) # {}
         THEN CHOOSE i \in SubstringMatches(keyword, list) :
                  \A j \in SubstringMatches(keyword, list) : i <= j
         ELSE IF 2 * SimilarityTo(keyword, list, MostSimilar(keyword, list)).num
                     > SimilarityTo(keyword, list, MostSimilar(keyword, list)).den
              THEN MostSimilar(keyword, list)
              ELSE 0

Expected == ExpectedGoal(TrimBlanks(ToLowerCase(GoalKeyword)), goals)

\* createLog ran with a keyword and its findGoalByKeyword got the goal list
LookedUp ==
    /\ executed = <<"createLog">>
    /\ GoalKeyword # NoKeyword
    /\ Len(requests) >= 2

\* C14: findGoalByKeyword returns the first goal in list order whose lower-cased
\* title contains the lower-cased trimmed keyword or is contained in it; else
\* the goal of maximum Jaccard word-set similarity (the earliest on a tie) if
\* that maximum is above 0.5; else null, and null for an empty list: after a
\* createLog with a keyword, the log went to that goal, or the goals were
\* listed when the rule gives null.
C14_FindGoalByKeyword ==
    /\ pc # "start" /\ pc # "analyze" /\ ~intentResult.threw
           => FindGoalByKeyword(GoalKeyword, goals) = Expected
    /\ LookedUp =>
           IF Expected = 0
           THEN Sent[2] = GetGoals
           ELSE Sent[2] = PostDailyLog(goals[Expected].id)

\* the keyword "Ai up" matched no title as a substring; of the three goals the
\* first has similarity 1/2 and the other two 2/3, and the log went to the
\* earlier of the two
C14_Witness ==
    /\ LookedUp
    /\ GoalKeyword = KwAiUp
    /\ goals = <<GoalUp, GoalAiToo, GoalAi>>
    /\ Sent = <<GetGoals, PostDailyLog(GoalAiToo.id)>>

\* the positions of the active goals, in list order
ActivePositions == {i \in DOMAIN goals : goals[i].isActive}

\* the listing of the active goals a needs-goal-selection result carries:
\* every active goal once, in list order, with its id, title and progress
ListsActiveGoals(available) ==
    /\ Len(available) = Cardinality(ActivePositions)
    /\ \A i \in ActivePositions :
           available[Cardinality({j \in ActivePositions : j <= i})]
               = [id |-> goals[i].id, title |-> goals[i].title,
                  progress |-> goals[i].progress]

\* the positions of the requests that submit a log
LogsSubmitted == {i \in DOMAIN Sent : Sent[i].method = "POST"}

\* the Goal-Tracker failed a request of the executor, or its exception left it
UpstreamFailed ==
    actionResult.message.template \in {"failed to create log", "Failed to execute action"}

AsksToCreateGoal ==
    /\ ~actionResult.success
    /\ ~actionResult.needsGoalSelection
    /\ actionResult.message = Text("no active goals", <<>>)
    /\ LogsSubmitted = {}

AsksWhichGoal ==
    /\ ~actionResult.success
    /\ actionResult.needsGoalSelection
    /\ ListsActiveGoals(actionResult.availableGoals)
    /\ LogsSubmitted = {}

LoggedFor(goal) ==
    /\ actionResult.success
    /\ actionResult.message = Text("Logged successfully for", goal.title)
    /\ Cardinality(LogsSubmitted) = 1
    /\ \A i \in LogsSubmitted : Sent[i] = PostDailyLog(goal.id)

\* at most one log was submitted, and for the goal
AtMostOneLogFor(goal) ==
    /\ Cardinality(LogsSubmitted) <= 1
    /\ \A i \in LogsSubmitted : Sent[i] = PostDailyLog(goal.id)

\* C15: createLog without a keyword: with no active goal it submits no log and
\* asks to create a goal; with exactly one it submits exactly one log, for that
\* goal, and succeeds with a message quoting the goal's title; with more than
\* one it submits no log and asks which goal, listing every active goal (id,
\* title, progress) and no inactive one.  When the Goal-Tracker fails a
\* request the result is the failure explanation, and still no log is
\* submitted other than the one for the single active goal.
C15_LogWithoutKeyword ==
    (executed = <<"createLog">> /\ GoalKeyword = NoKeyword) =>
        /\ ~UpstreamFailed =>
               /\ Cardinality(ActivePositions) = 0 => AsksToCreateGoal
               /\ Cardinality(ActivePositions) = 1 =>
                      \A i \in ActivePositions : LoggedFor(goals[i])
               /\ Cardinality(ActivePositions) > 1 => AsksWhichGoal
        /\ Cardinality(ActivePositions) # 1 => LogsSubmitted = {}
        /\ Cardinality(ActivePositions) = 1 =>
               \A i \in ActivePositions : AtMostOneLogFor(goals[i])

\* without a keyword, the log went to the only active goal of two goals
C15_Witness ==
    /\ executed = <<"createLog">>
    /\ GoalKeyword = NoKeyword
    /\ goals = <<GoalUp, GoalOld>>
    /\ LoggedFor(GoalUp)
    /\ Sent = <<GetGoals, PostDailyLog(GoalUp.id)>>

\* C16: createLog with a keyword: when findGoalByKeyword returns a goal,
\* exactly one log is submitted, for that goal, and the result is a success
\* whose message quotes its title; when it returns none, no log is submitted
\* and the result asks which goal, listing the active goals with id, title and
\* progress, or asks to create a goal when none is active.  When the
\* Goal-Tracker fails a request the result is the failure explanation, and
\* still no log is submitted other than the one for the goal found.
C16_LogWithKeyword ==
    (executed = <<"createLog">> /\ GoalKeyword # NoKeyword) =>
        IF FindGoalByKeyword(GoalKeyword, goals) # 0
        THEN /\ ~UpstreamFailed => LoggedFor(goals[FindGoalByKeyword(GoalKeyword, goals)])
             /\ AtMostOneLogFor(goals[FindGoalByKeyword(GoalKeyword, goals)])
        ELSE /\ LogsSubmitted = {}
             /\ ~UpstreamFailed =>
                    IF ActivePositions = {} THEN AsksToCreateGoal ELSE AsksWhichGoal

\* the keyword "zz" matched none of three goals, and the result lists the two
\* active ones
C16_Witness ==
    /\ executed = <<"createLog">>
    /\ GoalKeyword = KwOdd
    /\ goals = <<GoalOld, GoalAi, GoalGym>>
    /\ AsksWhichGoal
    /\ actionResult.availableGoals = Available(<<GoalAi, GoalGym>>)
    /\ Sent = <<GetGoals, GetGoals>>

\* the Goal-Tracker answers every request
AllAnswered == [get1 |-> TRUE, get2 |-> TRUE, post |-> TRUE]

\* createReminder came to resolve its goal: it submitted the log, or returned
\* a result of its own
ReminderResolved ==
    /\ executed = <<"createReminder">>
    /\ \/ LogsSubmitted # {}
       \/ actionResult.message.template
              \notin {"failed to create reminder", "Failed to execute action"}

\* C17: for every goal list and keyword, createReminder resolves its goal to
\* the outcome createLog resolves it to - the log goes to the same goal, or
\* nothing is written and the result asks which goal or asks to create one -
\* except when no keyword is given and more than one goal is active.
C17_ReminderResolvesAsLog ==
    (ReminderResolved /\ ~(GoalKeyword = NoKeyword /\ Cardinality(ActivePositions) > 1)) =>
        IF CreateLog(GoalKeyword, goals, AllAnswered).goalId # 0
        THEN AtMostOneLogFor([id |-> CreateLog(GoalKeyword, goals, AllAnswered).goalId])
                 /\ LogsSubmitted # {}
        ELSE /\ LogsSubmitted = {}
             /\ actionResult.needsGoalSelection
                    = CreateLog(GoalKeyword, goals, AllAnswered).needsGoalSelection

NoResult == [threw |-> FALSE, score |-> NaN, category |-> "none", reasoning |-> "none"]

ClassifyRequests ==
    [hist : HistoryOutcomes, gateway : GatewayOutcomes,
     text : Texts, value : ClassificationValues]

ClassifyInit ==
    /\ clsReq \in ClassifyRequests
    /\ clsRes = NoResult
    /\ AnalyzeIdle
    /\ ChatIdle
    /\ MonitorIdle
    /\ FeedbackIdle
    /\ ServicesIdle

ClassifyCall ==
    /\ clsRes = NoResult
    /\ clsRes' = Classify(clsReq.hist, clsReq.gateway, clsReq.text, clsReq.value)
    /\ UNCHANGED <<clsReq, otherThanClassify>>

ClassifyNext == ClassifyCall

SpecClassify == ClassifyInit /\ [][ClassifyNext]_vars

\* an executor of the turn performed a write in the Goal-Tracker: a POST of
\* the turn was answered, and the result says success
WriteDone ==
    /\ actionResult.kind = "result"
    /\ actionResult.success
    /\ \E i \in DOMAIN requests : requests[i].request.method = "POST"

\* C27: a chat turn that ends in an error has created nothing in the
\* Goal-Tracker and has appended no conversation message; and a turn in which
\* an executor performed a write, once over, has returned with the user
\* message and then the response persisted under its session.
C27_FailedTurnLeavesNothing ==
    /\ pc = "error" => (~WriteDone /\ messages = <<>>)
    /\ (WriteDone /\ pc \in {"done", "error"}) =>
           /\ pc = "done"
           /\ messages = <<Row("user", "session"), Row("assistant", "session")>>

(***************************************************************************)
(* Properties of classify                                                  *)
(***************************************************************************)
ClassifyReturned == clsRes # NoResult

\* the model answered with parseable JSON holding an object
ParseFailed == ~JsonParses(StripCodeFence(clsReq.text)) \/ clsReq.value.isNull

ReachedParse == clsReq.hist # "connectFails" /\ clsReq.gateway = "ok"

IsFallback(r) ==
    /\ ~r.threw
    /\ r.score = Num(5)
    /\ r.category = "medium"
    /\ r.reasoning \in {"Failed to parse response",
                        "Classification error, defaulting to medium importance"}

\* C2: every result of classify has the category of its score band:
\* score >= 8 is high, 5..7 is medium, score <= 4 is low.
C2_CategoryAgreesWithBand ==
    ClassifyReturned /\ ~clsRes.score.nan =>
        /\ clsRes.score.n >= 8 => clsRes.category = "high"
        /\ clsRes.score.n \in 5..7 => clsRes.category = "medium"
        /\ clsRes.score.n <= 4 => clsRes.category = "low"

\* C3: every score classify returns is a number within 1..10.
C3_ScoreInRange ==
    ClassifyReturned => ~clsRes.score.nan /\ clsRes.score.n \in 1..10

\* C5 as stated: classify never throws, and a failure of the feedback-history
\* read, of the gateway call or of the parse yields score 5, medium, fallback note.
C5_FallbackOnAnyFailure ==
    ClassifyReturned =>
        /\ ~clsRes.threw
        /\ (clsReq.hist # "ok" \/ clsReq.gateway = "fails" \/ ParseFailed)
               => IsFallback(clsRes)

\* C5 amended: classify never throws; a failed connection for the history read,
\* a failed gateway call or a failed parse yields score 5, medium, fallback note;
\* a failed history query is absorbed and the model's in-range score is returned.
C5_FallbackOnFailure ==
    ClassifyReturned =>
        /\ ~clsRes.threw
        /\ (clsReq.hist = "connectFails" \/ clsReq.gateway = "fails" \/ ParseFailed)
               => IsFallback(clsRes)
        /\ (/\ clsReq.hist = "queryFails"
            /\ ReachedParse
            /\ ~ParseFailed
            /\ clsReq.value.score.t = "num"
            /\ clsReq.value.score.n \in 1..10)
               => clsRes.score = Num(clsReq.value.score.n)

C5_Witness ==
    /\ ClassifyReturned
    /\ clsReq.gateway = "fails"
    /\ clsReq.hist = "ok"
    /\ IsFallback(clsRes)

(***************************************************************************)
(* Feedback submissions                                                    *)
(***************************************************************************)
\* the monitored messages the submissions are about
FeedbackStore ==
    {[copy |-> 1, userId |-> 1, source |-> "gmail", messageId |-> "m1",
      sender |-> From("m1"), score |-> 4, category |-> "low"],
     [copy |-> 1, userId |-> 2, source |-> "gmail", messageId |-> "m1",
      sender |-> From("m1"), score |-> 10, category |-> "high"]}

\* the :id of a request: the id of a stored message, or of none
FeedbackIds == {SerialId(r) : r \in FeedbackStore} \cup {2}

\* the submissions that have yet to append their row
Appending == {r \in SubmissionIds : submissions[r].pc \in {"select", "insert"}}

\* the request is answered: only the status is kept of it
Responded(status) == [IdleSubmission EXCEPT !.pc = "done", !.status = status]

\* the request arrives: feedbackSchema.validate answers 400 on its own
Submit(r, userId, id, body) ==
    /\ submissions[r].pc = "idle"
    /\ Len(feedback) + Cardinality(Appending) < MaxFeedback
    /\ submissions' = [submissions EXCEPT ![r] =
           IF SchemaAccepts(body.correctedScore)
           THEN [IdleSubmission EXCEPT !.pc = "select", !.userId = userId, !.id = id,
                                       !.correctedScore = body.correctedScore,
                                       !.feedbackText = body.feedbackText]
           ELSE Responded(400)]
    /\ UNCHANGED <<store, feedback, otherThanFeedback>>

\* the original message is read, and its owner is not looked at
SelectMessageOfAnyone(r) ==
    /\ submissions[r].pc = "select"
    /\ \/ submissions' = [submissions EXCEPT ![r] = Responded(500)]
       \/ /\ RowsWithId(store, submissions[r].id) = {}
          /\ submissions' = [submissions EXCEPT ![r] = Responded(404)]
       \/ \E message \in RowsWithId(store, submissions[r].id) :
              submissions' = [submissions EXCEPT ![r] =
                  [@ EXCEPT !.pc = "insert", !.originalScore = message.score]]
    /\ UNCHANGED <<store, feedback, otherThanFeedback>>

\* the original message is read: 404 when there is none, 403 when it is
\* another user's, 500 when the connection or the query fails
SelectMessage(r) ==
    /\ submissions[r].pc = "select"
    /\ \/ submissions' = [submissions EXCEPT ![r] = Responded(500)]
       \/ /\ RowsWithId(store, submissions[r].id) = {}
          /\ submissions' = [submissions EXCEPT ![r] = Responded(404)]
       \/ \E message \in RowsWithId(store, submissions[r].id) :
              submissions' = [submissions EXCEPT ![r] =
                  IF message.userId # submissions[r].userId
                  THEN Responded(403)
                  ELSE [@ EXCEPT !.pc = "insert", !.originalScore = message.score]]
    /\ UNCHANGED <<store, feedback, otherThanFeedback>>

\* storeFeedback: the row is appended, or the exception is answered with 500
StoreFeedback(r) ==
    /\ submissions[r].pc = "insert"
    /\ \/ /\ feedback' = Append(feedback,
                                FeedbackRow(submissions[r].id, submissions[r].userId,
                                            submissions[r].originalScore,
                                            submissions[r].correctedScore.n,
                                            submissions[r].feedbackText))
          /\ submissions' = [submissions EXCEPT ![r] = [@ EXCEPT !.pc = "update"]]
       \/ /\ submissions' = [submissions EXCEPT ![r] = Responded(500)]
          /\ UNCHANGED feedback
    /\ UNCHANGED <<store, otherThanFeedback>>

\* the stored message takes the corrected score and its category, and the
\* request is answered; a failed UPDATE is answered with 500
UpdateClassification(r) ==
    /\ submissions[r].pc = "update"
    /\ \/ /\ store' = UpdateMessage(store, submissions[r].id,
                                    submissions[r].correctedScore.n)
          /\ submissions' = [submissions EXCEPT ![r] = Responded(200)]
       \/ /\ submissions' = [submissions EXCEPT ![r] = Responded(500)]
          /\ UNCHANGED store
    /\ UNCHANGED <<feedback, otherThanFeedback>>

\* the response has left: the slot serves the next request
Respond(r) ==
    /\ submissions[r].pc = "done"
    /\ submissions' = [submissions EXCEPT ![r] = IdleSubmission]
    /\ UNCHANGED <<store, feedback, otherThanFeedback>>

\* the senders of the messages classify is called for
ClassifySenders == {<<"a", "g">>, <<"G">>, <<"a", "_">>, <<"x">>}

\* str LIKE pattern: % stands for any characters, _ for any one character
RECURSIVE Like(_, _)
Like(str, pattern) ==
    IF pattern = <<>> THEN str = <<>>
    ELSE IF Head(pattern) = "%"
         THEN \E k \in 0..Len(str) : Like(SubSeq(str, k + 1, Len(str)), Tail(pattern))
         ELSE /\ str # <<>>
              /\ Head(pattern) = "_" \/ Head(pattern) = Head(str)
              /\ Like(Tail(str), Tail(pattern))

\* str ILIKE pattern
ILike(str, pattern) == Like(ToLowerCase(str), ToLowerCase(pattern))

\* `%${sender}%`
SenderPattern(sender) == <<"%">> \o sender \o <<"%">>

\* the rows of message_feedback the query of getLearningContext selects, by
\* their position: of the user, joined with a message whose sender is ILIKE
\* the pattern
Selected(fb, rows, userId, sender) ==
    {i \in DOMAIN fb :
        /\ fb[i].userId = userId
        /\ \E m \in RowsWithId(rows, fb[i].messageId) :
               ILike(m.sender, SenderPattern(sender))}

\* ORDER BY mf.created_at DESC LIMIT n
RECURSIVE Latest(_, _)
Latest(positions, n) ==
    IF positions = {} \/ n = 0 THEN <<>>
    ELSE LET last == CHOOSE i \in positions : \A j \in positions : j <= i
         IN  <<last>> \o Latest(positions \ {last}, n - 1)

\* one line of the learning context
PatternOf(row, rows) ==
    [sender |-> (CHOOSE m \in RowsWithId(rows, row.messageId) : TRUE).sender,
     change |-> IF row.correctedScore > row.originalScore
                THEN "increased" ELSE "decreased",
     originalScore |-> row.originalScore,
     correctedScore |-> row.correctedScore,
     feedbackText |-> IF Truthy(row.feedbackText) THEN row.feedbackText.s ELSE ""]

Patterns(fb, rows, latest) == [k \in DOMAIN latest |-> PatternOf(fb[latest[k]], rows)]

\* getLearningContext(userId, sender) when its query succeeds
LearningContext(fb, rows, userId, sender) ==
    Patterns(fb, rows, Latest(Selected(fb, rows, userId, sender), LearningLimit))

\* classify builds its prompt for a message of the sender
BuildPrompt(userId, sender) ==
    /\ prompt' = [userId |-> userId, sender |-> sender,
                  learning |-> LearningContext(feedback, store, userId, sender)]
    /\ UNCHANGED <<feedback, submissions, clsVars, anaVars, chatVars, monVars, svcVars>>

FeedbackInit ==
    /\ store = FeedbackStore
    /\ prefs = [u \in Users |-> NoPrefs]
    /\ cycles = [c \in CycleIds |-> IdleCycle]
    /\ completed = {}
    /\ trace = NoTrace
    /\ FeedbackIdle
    /\ ServicesIdle
    /\ ClassifyIdle
    /\ AnalyzeIdle
    /\ ChatIdle

FeedbackNext ==
    \E r \in SubmissionIds :
        \/ \E userId \in Users, id \in FeedbackIds, body \in Bodies :
               Submit(r, userId, id, body)
        \/ SelectMessage(r)
        \/ StoreFeedback(r)
        \/ UpdateClassification(r)
        \/ Respond(r)

SpecFeedback == FeedbackInit /\ [][FeedbackNext]_vars

\* feedback submitted one request at a time, and the prompts of classify
LearningNext ==
    \/ \E userId \in Users, id \in FeedbackIds, body \in Bodies :
           Submit(1, userId, id, body)
    \/ SelectMessage(1)
    \/ StoreFeedback(1)
    \/ UpdateClassification(1)
    \/ Respond(1)
    \/ \E userId \in Users, sender \in ClassifySenders : BuildPrompt(userId, sender)

SpecLearning == FeedbackInit /\ [][LearningNext]_vars

(***************************************************************************)
(* Properties of the feedback submissions                                  *)
(***************************************************************************)
\* the step in which submission r is answered with success
Succeeds(r) ==
    /\ submissions[r].pc = "update"
    /\ submissions'[r].pc = "done"
    /\ submissions'[r].status = 200

\* C12: a submission that completes successfully has appended one row with
\* the message, the user, the score it found stored and the corrected score,
\* and leaves the stored message with the corrected score and the category of
\* its band; no other step of a submission appends a row.
C12_FeedbackRecordedAndApplied ==
    [][/\ Len(feedback') # Len(feedback)
              => \E q \in SubmissionIds :
                     submissions[q].pc = "insert" /\ submissions'[q].pc = "update"
       /\ \A r \in SubmissionIds :
              /\ Succeeds(r) =>
                    /\ \E i \in DOMAIN feedback :
                           feedback[i] = FeedbackRow(submissions[r].id,
                                                     submissions[r].userId,
                                                     submissions[r].originalScore,
                                                     submissions[r].correctedScore.n,
                                                     submissions[r].feedbackText)
                    /\ RowsWithId(store', submissions[r].id) # {}
                    /\ \A m \in RowsWithId(store', submissions[r].id) :
                           /\ m.score = submissions[r].correctedScore.n
                           /\ m.category = IF m.score >= 8 THEN "high"
                                           ELSE IF m.score >= 5 THEN "medium" ELSE "low"
              /\ (submissions[r].pc = "select" /\ submissions'[r].pc = "insert")
                    => \E m \in RowsWithId(store, submissions[r].id) :
                           submissions'[r].originalScore = m.score
              /\ (submissions[r].pc = "insert" /\ submissions'[r].pc = "update")
                    => Len(feedback') = Len(feedback) + 1
              /\ submissions'[r].pc = "update"
                    => submissions[r].pc \in {"insert", "update"}]_vars

\* a submission correcting the message of user 1 from 4 to 9 has succeeded
C12_Witness ==
    /\ submissions[1].pc = "done"
    /\ submissions[1].status = 200
    /\ feedback = <<FeedbackRow(1, 1, 4, 9, JStr("note"))>>
    /\ \E m \in store : m.userId = 1 /\ m.score = 9 /\ m.category = "high"

\* the positions of the feedback rows for the message of the id
RowsFor(id) == {i \in DOMAIN feedback : feedback[i].messageId = id}

\* the row appended last for the message of the id
LastRowFor(id) == feedback[CHOOSE i \in RowsFor(id) : \A j \in RowsFor(id) : j <= i]

AllCompleted == \A r \in SubmissionIds : submissions[r].pc \in {"idle", "done"}

\* C26: after any interleaving of feedback submissions for one message, once
\* all of them have completed, the stored score and category of the message
\* are those of the correctedScore of the row appended last for it.
C26_LastFeedbackWins ==
    AllCompleted =>
        \A m \in store :
            RowsFor(SerialId(m)) # {} =>
                /\ m.score = LastRowFor(SerialId(m)).correctedScore
                /\ m.category = NewCategory(LastRowFor(SerialId(m)).correctedScore)

\* the submission is for a message that does not exist or is another user's
NotOwn(r) ==
    \A m \in RowsWithId(store, submissions[r].id) : m.userId # submissions[r].userId

\* every feedback row is of the owner of its message
RowsOfOwners ==
    \A i \in DOMAIN feedback :
        \E m \in RowsWithId(store, feedback[i].messageId) : m.userId = feedback[i].userId

\* C29: a feedback submission of a user for a message of another user, or for
\* an id of no message, is rejected with no effect: its request is answered
\* 403 or 404 (500 when the store fails) by the step that reads the message,
\* no feedback row is appended for it, and no stored message changes.
C29_ForeignFeedbackRejected ==
    /\ [][\A r \in SubmissionIds :
              (submissions[r].pc = "select" /\ NotOwn(r) /\ submissions'[r] # submissions[r])
                  => /\ submissions'[r].pc = "done"
                     /\ submissions'[r].status \in {403, 404, 500}
                     /\ RowsWithId(store, submissions[r].id) = {}
                            => submissions'[r].status \in {404, 500}
                     /\ feedback' = feedback
                     /\ store' = store]_vars
    /\ [](\A r \in SubmissionIds : submissions[r].pc \in {"insert", "update"} => ~NotOwn(r))
    /\ []RowsOfOwners

\* a submission was answered 403, and the rows are as they were
C29_Witness ==
    /\ submissions[1] = Responded(403)
    /\ submissions[2] = IdleSubmission
    /\ feedback = <<>>
    /\ store = FeedbackStore

(***************************************************************************)
(* Properties of the learning context                                      *)
(***************************************************************************)
\* the feedback rows of the user on messages whose sender contains the given
\* sender, case ignored
Matching(userId, sender) ==
    {i \in DOMAIN feedback :
        /\ feedback[i].userId = userId
        /\ \E m \in RowsWithId(store, feedback[i].messageId) :
               Includes(ToLowerCase(m.sender), ToLowerCase(sender))}

Renders(line, row) ==
    /\ line.originalScore = row.originalScore
    /\ line.correctedScore = row.correctedScore
    /\ line.feedbackText = IF row.feedbackText.t = "str" THEN row.feedbackText.s ELSE ""

\* C13: the prompt classify builds for user U and sender S holds at most 3
\* corrections, each of a feedback row of U on a message whose sender contains
\* S (case ignored), and holds every such row that is among the 3 most recent.
C13_PromptHoldsRecentCorrections ==
    [][prompt' # prompt =>
          /\ Len(prompt'.learning) <= 3
          /\ \A k \in DOMAIN prompt'.learning :
                 \E i \in Matching(prompt'.userId, prompt'.sender) :
                     Renders(prompt'.learning[k], feedback[i])
          /\ \A i \in Matching(prompt'.userId, prompt'.sender) :
                 Cardinality({j \in Matching(prompt'.userId, prompt'.sender) : j > i}) < 3
                     => \E k \in DOMAIN prompt'.learning :
                            Renders(prompt'.learning[k], feedback[i])]_vars

(***************************************************************************)
(* generateContentWithRetry                                                *)
(***************************************************************************)
\* error.status of what model.generateContent can throw: rate limit,
\* unavailable, another status, or an error without a status
ErrorStatuses == {429, 503, 500, 0}

\* values of Math.random() * 1000, which is below 1000
Jitters == {0, 1, 500, JitterRange - 1}

RECURSIVE Pow2(_)
Pow2(n) == IF n = 0 THEN 1 ELSE 2 * Pow2(n - 1)

\* every error is taken for a transient one
RetryAny(status) == TRUE

\* error.status === 429 || error.status === 503
ShouldRetry(status) == status = 429 \/ status = 503

\* a delay that grows by the base per attempt
DelayLinear(attempt, jitter) == BaseDelay * (attempt + 1) + jitter

\* baseDelay * Math.pow(2, attempt) + Math.random() * 1000
Delay(attempt, jitter) == BaseDelay * Pow2(attempt) + jitter

\* the catch block for an error of the status: rethrow after the last
\* attempt, set the timer of the retry for a transient error, else rethrow
Caught(call, status, jitter) ==
    IF call.attempt = MaxRetries
    THEN [call EXCEPT !.pc = "threw", !.error = status]
    ELSE IF ShouldRetry(status)
         THEN [call EXCEPT !.pc = "wait", !.error = status,
                           !.waits = Append(@, Delay(call.attempt, jitter))]
         ELSE [call EXCEPT !.pc = "threw", !.error = status]

\* await model.generateContent(prompt) settles: the result is returned, or
\* the catch block runs
Generate ==
    /\ retry.pc = "call"
    /\ \/ retry' = [retry EXCEPT !.pc = "returned", !.calls = @ + 1]
       \/ \E status \in ErrorStatuses, jitter \in Jitters :
              retry' = Caught([retry EXCEPT !.calls = @ + 1], status, jitter)
    /\ UNCHANGED otherThanRetry

\* the timer of the retry fires: continue with attempt++
TimerElapsed ==
    /\ retry.pc = "wait"
    /\ retry' = [retry EXCEPT !.pc = "call", !.attempt = @ + 1]
    /\ UNCHANGED otherThanRetry

RetryInit ==
    /\ retry = FirstAttempt
    /\ SimilarityIdle
    /\ TurnsIdle
    /\ HistoryIdle
    /\ ClassifyIdle
    /\ AnalyzeIdle
    /\ ChatIdle
    /\ MonitorIdle
    /\ FeedbackIdle

RetryNext == Generate \/ TimerElapsed

\* the model call settles and the timer fires: the event loop then runs the
\* continuation
SpecRetry == RetryInit /\ [][RetryNext]_vars /\ WF_vars(Generate) /\ WF_vars(TimerElapsed)

(***************************************************************************)
(* Properties of generateContentWithRetry                                  *)
(***************************************************************************)
Ended == retry.pc \in {"returned", "threw"}

\* the calls made number one more than the retries, and at most 4
CallsBounded ==
    /\ retry.calls <= MaxRetries + 1
    /\ retry.calls = retry.attempt + (IF retry.pc = "call" THEN 0 ELSE 1)
    /\ Len(retry.waits) = retry.attempt + (IF retry.pc = "wait" THEN 1 ELSE 0)

\* what an attempt leads to
AttemptOutcome ==
    retry' # retry /\ retry.pc = "call" =>
        /\ retry'.calls = retry.calls + 1
        /\ retry'.pc \in {"returned", "wait", "threw"}
        /\ retry'.pc = "wait" => retry'.error \in {429, 503} /\ retry.calls < MaxRetries
        /\ (retry'.pc = "threw" /\ retry'.error \in {429, 503}) => retry'.calls = MaxRetries + 1
        /\ retry'.pc # "returned" /\ retry'.error \notin {429, 503} => retry'.pc = "threw"

\* C22: one call of the helper invokes the model at most 4 times and ends; it
\* retries only after an error of status 429 or 503; an error of another kind
\* is thrown on by the attempt that raised it, a success returns, and a
\* transient error of the 4th attempt is thrown on - with no model call after
\* the helper has ended.
C22_RetryAtMostThreeTimes ==
    /\ []CallsBounded
    /\ [][AttemptOutcome]_vars
    /\ [][Ended => retry' = retry]_vars
    /\ <>Ended

\* the 4th attempt failed with 429 after three retries, and the error was
\* thrown on
C22_Witness ==
    /\ retry.pc = "threw"
    /\ retry.error = 429
    /\ retry.calls = 4
    /\ Len(retry.waits) = 3

\* C23: the wait before the k-th retry is at least base * 2^(k-1) and less
\* than base * 2^(k-1) + 1000 ms with base = 2000 ms, and successive waits
\* strictly increase.
C23_BackoffDoublesWithBoundedJitter ==
    /\ Len(retry.waits) <= 3
    /\ \A k \in DOMAIN retry.waits :
           /\ retry.waits[k] >= 2000 * Pow2(k - 1)
           /\ retry.waits[k] < 2000 * Pow2(k - 1) + 1000
           /\ k > 1 => retry.waits[k] > retry.waits[k - 1]

\* three retries were waited for, the first with no jitter and the others
\* with the largest
C23_Witness ==
    /\ Len(retry.waits) = 3
    /\ retry.waits = <<2000, 4999, 8999>>

(***************************************************************************)
(* calculateSimilarity on pairs of strings                                 *)
(***************************************************************************)
\* lower-cased keywords and titles, the empty string, a string with two
\* blanks in a row and one with a word twice
SimilarityStrings ==
    {<<>>, <<" ">>, <<"g", "y", "m">>, <<"a", "i">>, <<"a", "i", " ", "u", "p">>,
     <<"u", "p", " ", "a", "i">>, <<"a", "i", " ", "i", "o", " ", "u", "p">>,
     <<"a", "i", " ", " ", "u", "p">>, <<"a", "i", " ", "a", "i">>,
     <<"u", "p", " ", "a", "i", " ", "i", "o", " ", "z">>, <<"z", "z">>}

SimilarityInit ==
    /\ \E str1 \in SimilarityStrings, str2 \in SimilarityStrings :
           sim = [str1 |-> str1, str2 |-> str2, forth |-> NoSimilarity,
                  back |-> NoSimilarity]
    /\ RetryIdle
    /\ TurnsIdle
    /\ HistoryIdle
    /\ ClassifyIdle
    /\ AnalyzeIdle
    /\ ChatIdle
    /\ MonitorIdle
    /\ FeedbackIdle

\* calculateSimilarity(str1, str2) and calculateSimilarity(str2, str1)
Calculate ==
    /\ sim.forth = NoSimilarity
    /\ sim' = [sim EXCEPT !.forth = CalculateSimilarity(sim.str1, sim.str2),
                          !.back = CalculateSimilarity(sim.str2, sim.str1)]
    /\ UNCHANGED otherThanSimilarity

SimilarityNext == Calculate

SpecSimilarity == SimilarityInit /\ [][SimilarityNext]_vars

\* C24: the similarity of the goal matcher is symmetric, similarity(a, b) =
\* similarity(b, a), and lies in [0, 1].
C24_JaccardSymmetric ==
    sim.forth # NoSimilarity =>
        /\ sim.forth.num * sim.back.den = sim.back.num * sim.forth.den
        /\ sim.forth.den > 0 /\ sim.back.den > 0
        /\ 0 <= sim.forth.num /\ sim.forth.num <= sim.forth.den

\* "ai up" and "ai io up" have similarity 2/3 in both orders
C24_Witness ==
    /\ sim.str1 = <<"a", "i", " ", "u", "p">>
    /\ sim.str2 = <<"a", "i", " ", "i", "o", " ", "u", "p">>
    /\ sim.forth = [num |-> 2, den |-> 3]
    /\ sim.back = [num |-> 2, den |-> 3]

(***************************************************************************)
(* The Action Executors of concurrent chat turns on the one dayTrackerAPI  *)
(***************************************************************************)
\* the jwtToken of the chat turn of a user
TokenOf(t) == IF t = 1 THEN "token1" ELSE "token2"

\* `Bearer ${token}`
Bearer(token) == <<"Bearer", token>>

\* the request sequences an executor call can come to send
ExecutorPlans ==
    {CreateLog(k, list, net).sent : k \in Keywords, list \in GoalLists, net \in NetOutcomes}
        \cup {CreateReminder(k, list, net).sent :
                  k \in Keywords, list \in GoalLists, net \in NetOutcomes}
        \cup {CreateGoal(d, net).sent : d \in DurationFields, net \in NetOutcomes}

\* a request as the Goal-Tracker receives it: the client puts its
\* Authorization default on it when the request is made
Received(t, authorization, request) ==
    [turn |-> t, authorization |-> authorization, request |-> request]

\* the executor of the turn is called: dayTrackerAPI.setAuthToken(jwtToken),
\* then, with no await between, its first request if it makes one
StartExecutor(t) ==
    /\ turns[t].pc = "idle"
    /\ authToken' = Bearer(TokenOf(t))
    /\ \E plan \in ExecutorPlans :
           IF plan = <<>>
           THEN /\ turns' = [turns EXCEPT ![t] = [pc |-> "done", plan |-> <<>>]]
                /\ UNCHANGED wire
           ELSE /\ turns' = [turns EXCEPT ![t] = [pc |-> "awaiting", plan |-> Tail(plan)]]
                /\ wire' = Append(wire, Received(t, authToken', Head(plan)))
    /\ UNCHANGED otherThanTurns

\* the awaited answer arrives: the executor makes its next request, or returns
ContinueExecutor(t) ==
    /\ turns[t].pc = "awaiting"
    /\ IF turns[t].plan = <<>>
       THEN /\ turns' = [turns EXCEPT ![t] = [pc |-> "done", plan |-> <<>>]]
            /\ UNCHANGED wire
       ELSE /\ turns' = [turns EXCEPT ![t] = [@ EXCEPT !.plan = Tail(@)]]
            /\ wire' = Append(wire, Received(t, authToken, Head(turns[t].plan)))
    /\ UNCHANGED <<authToken, otherThanTurns>>

TurnsInit ==
    /\ TurnsIdle
    /\ RetryIdle
    /\ SimilarityIdle
    /\ HistoryIdle
    /\ ClassifyIdle
    /\ AnalyzeIdle
    /\ ChatIdle
    /\ MonitorIdle
    /\ FeedbackIdle

TurnsNext == \E t \in TurnIds : StartExecutor(t) \/ ContinueExecutor(t)

SpecTurns == TurnsInit /\ [][TurnsNext]_vars

\* C25: in every interleaving of the chat turns of different users, each
\* request an executor sends to the Goal-Tracker for a turn carries the
\* credential of that turn.
C25_RequestsCarryOwnCredential ==
    \A i \in DOMAIN wire : wire[i].authorization = Bearer(TokenOf(wire[i].turn))

(***************************************************************************)
(* History: GET /history, getSessionHistory and getUserHistory             *)
(***************************************************************************)
\* the session ids chat requests name; any user can name any of them
Sessions == {"s1", "s2"}

\* req.query.limit as sent
LimitParams == {"none", "0", "1", "2", "-1"}

\* parseInt(req.query.limit) || 50: NaN and 0 are falsy
ParseLimit(param) ==
    CASE param = "1" -> 1
      [] param = "2" -> 2
      [] param = "-1" -> -1
      [] OTHER -> DefaultLimit

\* a row of ai_conversations; created_at grows with the insertions
ConversationRow(userId, sessionId, messageType, createdAt) ==
    [userId |-> userId, sessionId |-> sessionId, messageType |-> messageType,
     createdAt |-> createdAt]

\* conversationService.storeMessage: the INSERT of one message of a chat turn
StoreConversationMessage(userId, sessionId, messageType) ==
    /\ Len(messages) < MaxStored
    /\ messages' = Append(messages, ConversationRow(userId, sessionId, messageType,
                                                    Len(messages) + 1))
    /\ UNCHANGED <<history, otherThanHistory>>

\* ORDER BY created_at DESC
OrderByCreatedAtDesc(rows) ==
    CHOOSE q \in [1..Cardinality(rows) -> rows] :
        \A i, j \in 1..Cardinality(rows) : i < j => q[i].createdAt > q[j].createdAt

\* LIMIT $2
Limit(q, limit) == SubSeq(q, 1, IF limit < Len(q) THEN limit ELSE Len(q))

\* result.rows.reverse()
Reverse(q) == [i \in 1..Len(q) |-> q[Len(q) + 1 - i]]

\* WHERE session_id = $1
SessionRows(sessionId) ==
    {messages[i] : i \in {j \in DOMAIN messages : messages[j].sessionId = sessionId}}

\* WHERE user_id = $1
UserMessages(userId) ==
    {messages[i] : i \in {j \in DOMAIN messages : messages[j].userId = userId}}

GetSessionHistory(sessionId, limit) ==
    Reverse(Limit(OrderByCreatedAtDesc(SessionRows(sessionId)), limit))

GetUserHistory(userId, limit) ==
    Reverse(Limit(OrderByCreatedAtDesc(UserMessages(userId)), limit))

HistoryResponse(userId, sessionId, status, data) ==
    [userId |-> userId, sessionId |-> sessionId, status |-> status, data |-> data]

\* GET /history of an authenticated user: the history of the named session,
\* or of the user when none is named; a negative LIMIT or a failed query
\* throws, which the route answers with 500
GetHistory(userId, sessionId, param) ==
    /\ \/ /\ ParseLimit(param) >= 0
          /\ history' = HistoryResponse(userId, sessionId, 200,
                             IF sessionId # ""
                             THEN GetSessionHistory(sessionId, ParseLimit(param))
                             ELSE GetUserHistory(userId, ParseLimit(param)))
       \/ history' = HistoryResponse(userId, sessionId, 500, <<>>)
    /\ UNCHANGED <<messages, otherThanHistory>>

HistoryInit ==
    /\ HistoryIdle
    /\ RetryIdle
    /\ SimilarityIdle
    /\ TurnsIdle
    /\ ClassifyIdle
    /\ AnalyzeIdle
    /\ ChatIdle
    /\ MonitorIdle
    /\ FeedbackIdle

HistoryNext ==
    \/ \E userId \in Users, sessionId \in Sessions, messageType \in {"user", "assistant"} :
           StoreConversationMessage(userId, sessionId, messageType)
    \/ \E userId \in Users, sessionId \in Sessions \cup {""}, param \in LimitParams :
           GetHistory(userId, sessionId, param)

SpecHistory == HistoryInit /\ [][HistoryNext]_vars

(***************************************************************************)
(* Properties of the history                                               *)
(***************************************************************************)
Chronological(q) == \A i, j \in DOMAIN q : i < j => q[i].createdAt < q[j].createdAt

\* C30: the history a GET /history request returns holds only conversation
\* messages of the requesting user, in chronological order, whether or not
\* the request names a session.
C30_HistoryOfRequesterOnly ==
    history.status = 200 =>
        /\ \A i \in DOMAIN history.data : history.data[i].userId = history.userId
        /\ Chronological(history.data)
====
